---- MODULE Spec2Model ----
(***************************************************************************)
(* A model of the scene Factory and of the Scoped Context it mints         *)
(* (src/common.go lines 131-313, src/unnamed/part_001 lines 1-235).        *)
(*                                                                         *)
(* Every critical section of the per-context mutex and every atomic        *)
(* operation is one step; the code between two of them, which touches no   *)
(* state another goroutine reads, is folded into the step before it.       *)
(* Time is abstract: a timer that has been armed fires at some later step. *)
(***************************************************************************)
EXTENDS Integers, Sequences, FiniteSets, TLC

\* ------------------------------------------------------------- bounds
\* creation calls (NewCtx / Wrap / Spawn) made on the factory
MaxCtx == 2
\* goroutines calling Complete / CompleteWithError on one context
NumCallers == 2
\* callbacks registered with Defer on one context
MaxDefer == 3
\* providers handed to NewSceneFactor
NumProviders == 2
\* goroutines calling Factory.Shutdown
NumShutdown == 2
\* Extend calls made on one context
MaxExtend == 1
\* handlers chained behind one HTTPMiddleware with Next
NumHandlers == 2

CtxIds == 1..MaxCtx
Callers == 1..NumCallers
\* the goroutine started by `go ctx.refreshDeadline()`
Waiter == 0
\* the goroutines started by `go c.refreshDeadline()` in Extend, one per call
Refreshers == (NumCallers + 1)..(NumCallers + MaxExtend)
Waiters == {Waiter} \cup Refreshers
Completers == Waiters \cup Callers
Providers == 1..NumProviders
Shutdowners == 1..NumShutdown
CallbackIds == 1..MaxDefer

\* ------------------------------------------------------------- values
Absent == "absent"
RequestIDKey == "RequestIDKey"
Keys == {"k"}
\* the keys under which HTTPMiddleware stores the request's header and its encoder
CtxHTTPHeaderKey == "CtxHTTPHeaderKey"
CtxHTTPEncoder == "CtxHTTPEncoder"
AllKeys == Keys \cup {RequestIDKey, CtxHTTPHeaderKey, CtxHTTPEncoder}
Vals == {"v1", "v2"}
\* a map[any]any, as the value found under each key
EmptyMap == [k \in AllKeys |-> Absent]
\* context.Background(): no value under any key
Background == EmptyMap
\* the external contexts handed to Wrap: one without and one with a value for "k"
ExtCtxs == {Background, [Background EXCEPT !["k"] = "ext"]}
\* uuid.New().String(): a distinct id per context
IdOf(i) == "id" \o ToString(i)

ErrNil == "nil"
ErrComplete == "ErrComplete"
ErrTimeout == "ErrTimeout"
ErrCustom == "custom"
ErrShutdownInProgress == "ErrShutdownInProgress"
\* context.Canceled, the Err() of an external context that was cancelled
ErrCanceled == "context canceled"
\* stack.Trace(err, ...): a new error value that carries err and its message
Trace(e) == "stack.Trace(" \o e \o ")"
\* err.Error(): the message of an error, that of the error it carries
ErrorText(e) == IF e = Trace(ErrTimeout) THEN ErrTimeout ELSE e
\* the errors a caller hands to CompleteWithError
CallerErrs == {ErrNil, ErrComplete, ErrCustom}
\* NoTTL, or a positive time-to-live
TTLs == {0, 1}
\* what a provider's OnFactoryUnmount does
HookOutcomes == {"ok", "err", "panic"}
\* what a handler leaves in the capturing writer: nothing, or the status it wrote
StatusCodes == {0, 200, 302, 404}

VARIABLES
    factory,    \* the Factory struct
    calls,      \* the NewCtx / Wrap / Spawn calls, one per context slot
    ctxs,       \* the context structs
    comp,       \* per context, the goroutines inside CompleteWithError / refreshDeadline
    ran,        \* per context, the callbacks executed so far, in order
    shut,       \* the Shutdown calls
    unmounted,  \* the OnFactoryUnmount invocations so far, in order
    hist        \* history: the contexts open when Shutdown was called (openAtCall) and
                \* those of them still open when its deadline passed (pendingAtFire);
                \* per context the callbacks registered before isComplete was set
                \* (early), the keys Store has written (stored), the value of the
                \* latest write under each key (last), whether a Store found the
                \* context completed (dropped), and the latest deadline that an
                \* Extend's refresh put into force before the timer fired (due);
                \* per key the value handed to the latest StoreDefault call that
                \* has written (defaults)

vars == <<factory, calls, ctxs, comp, ran, shut, unmounted, hist>>

\* ------------------------------------------------------------- initial state
\* a ServeHTTP call: where it stands, the handler of the chain that is next, and the
\* status code the capturing writer holds
NoHTTP == [phase |-> "none", next |-> 0, statusCode |-> 0]

NoCall == [pc |-> "free", kind |-> "none", parent |-> 0, base |-> Background,
           baseErr |-> ErrNil, err |-> ErrNil, hooks |-> <<>>, http |-> NoHTTP]

\* a goroutine's call of Value on a context: the key asked for, the contexts whose
\* Value is on its stack, the outermost first, and what the call returned
NoLookup == [pc |-> "idle", key |-> Absent, stack |-> <<>>, result |-> Absent]

\* Context is the attached base context as the values it yields itself; via is the
\* Scoped Context it was derived from (context.WithValue(ctx, k, v) asks ctx for every
\* other key), 0 when it was derived from none
NoCtx == [alloc |-> FALSE, id |-> "", Context |-> Background,
          contextValues |-> EmptyMap,
          isComplete |-> FALSE, err |-> ErrNil, onComplete |-> <<>>,
          complete |-> FALSE, deadline |-> 0, completeBy |-> 0,
          activeTimer |-> "nil", timerAt |-> 0,
           via |-> 0, lookup |-> NoLookup]

NoCompleter == [pc |-> "idle", err |-> ErrNil, idx |-> 0, call |-> "none"]

NoShutdown == [pc |-> "idle", admitted |-> FALSE, result |-> FALSE,
               c |-> FALSE, drain |-> "none", timer |-> "unset", k |-> 0]

\* sync.RWMutex{}: the number of goroutines holding the read lock and the goroutines
\* blocked in Lock, each with the write it is about to make. The write lock itself is
\* never held from one step to the next.
NoLock == [readers |-> 0, pending |-> {}]

NewSceneFactor(ttl) ==
    [closed |-> FALSE, done |-> FALSE, doneCloses |-> 0,
     requestTTL |-> ttl, defaultContextValues |-> EmptyMap,
     defaultsLock |-> NoLock,
     openContexts |-> 0, openContextWg |-> 0, log |-> <<>>]

Init ==
    /\ \E ttl \in TTLs : factory = NewSceneFactor(ttl)
    /\ calls = [i \in CtxIds |-> NoCall]
    /\ ctxs = [i \in CtxIds |-> NoCtx]
    /\ comp = [i \in CtxIds |-> [c \in Completers |-> NoCompleter]]
    /\ ran = [i \in CtxIds |-> <<>>]
    /\ shut = [s \in Shutdowners |-> NoShutdown]
    /\ unmounted = <<>>
    /\ hist = [openAtCall |-> {}, pendingAtFire |-> {},
               early |-> [i \in CtxIds |-> {}],
               stored |-> [i \in CtxIds |-> {}],
               last |-> [i \in CtxIds |-> EmptyMap],
               dropped |-> [i \in CtxIds |-> FALSE],
               due |-> [i \in CtxIds |-> 0],
               defaults |-> EmptyMap]

\* ------------------------------------------------------------- reads
\* Factory.OpenContexts
OpenContexts == factory.openContexts

\* Value that looks into the own map only
ValueOwnOnly(i, key) == ctxs[i].contextValues[key]

\* Value looking into the attached base context first
ValueBaseFirst(i, key) ==
    IF ctxs[i].Context[key] # Absent
    THEN ctxs[i].Context[key]
    ELSE ctxs[i].contextValues[key]

\* context.Value: the own map first, then the attached base context (a nil map
\* reads as an empty one)
Value(i, key) ==
    IF ctxs[i].contextValues[key] # Absent
    THEN ctxs[i].contextValues[key]
    ELSE ctxs[i].Context[key]

\* Err() of the base context attached to context i: that of the external context
\* handed to Wrap, which a spawned context shares with its parent
RECURSIVE BaseErr(_)
BaseErr(i) == IF calls[i].kind = "Spawn" THEN BaseErr(calls[i].parent)
              ELSE calls[i].baseErr

\* context.GetLastError / Err: the stored error, else the error of the attached base
\* context
GetLastError(i) == IF ctxs[i].err # ErrNil THEN ctxs[i].err ELSE BaseErr(i)

\* GetRequestID: the string found under RequestIDKey{}, "" when there is none
GetRequestID(found) == IF found = Absent THEN "" ELSE found

\* context.Done: has the completion signal been closed
Done(i) == ctxs[i].complete

\* Factory.Done
FactoryDone == factory.done

\* ------------------------------------------------------------- creation
\* a slot is taken by the next creation call; slots are used in order
SlotFree(i) ==
    /\ calls[i].pc = "free"
    /\ \A j \in CtxIds : j < i => calls[j].pc # "free"

\* Factory.Wrap up to the closed check
WrapCheck(i, ext) ==
    /\ SlotFree(i)
    /\ IF factory.closed
       THEN calls' = [calls EXCEPT ![i] = [pc |-> "refused", kind |-> "Wrap", parent |-> 0,
                                           base |-> Background,
                                           err |-> ErrShutdownInProgress,
                                           hooks |-> <<>>, baseErr |-> ErrNil,
                                           http |-> NoHTTP]]
       ELSE calls' = [calls EXCEPT ![i] = [pc |-> "checked", kind |-> "Wrap", parent |-> 0,
                                           base |-> ext, err |-> ErrNil,
                                           hooks |-> <<>>, baseErr |-> ErrNil,
                                           http |-> NoHTTP]]
    /\ UNCHANGED <<factory, ctxs, comp, ran, shut, unmounted, hist>>

\* Factory.NewCtx up to the closed check: Wrap of context.Background()
NewCtxCheck(i) == WrapCheck(i, Background)

\* SpawnCheck that does not read the parent's isComplete
SpawnCheckNoParent(i, p) ==
    /\ SlotFree(i)
    /\ calls[p].pc = "open"
    /\ calls' = [calls EXCEPT ![i] = [pc |-> "checked", kind |-> "Spawn", parent |-> p,
                                      base |-> ctxs[p].Context, err |-> ErrNil,
                                      hooks |-> <<>>, baseErr |-> ErrNil,
                                           http |-> NoHTTP]]
    /\ UNCHANGED <<factory, ctxs, comp, ran, shut, unmounted, hist>>

\* context.Spawn up to the check of the parent's isComplete; the factory's closed
\* flag is not read
SpawnCheck(i, p) ==
    /\ SlotFree(i)
    /\ calls[p].pc = "open"
    /\ IF ctxs[p].isComplete
       THEN calls' = [calls EXCEPT ![i] = [pc |-> "refused", kind |-> "Spawn", parent |-> p,
                                           base |-> Background,
                                           err |-> ErrShutdownInProgress,
                                           hooks |-> <<>>, baseErr |-> ErrNil,
                                           http |-> NoHTTP]]
       ELSE calls' = [calls EXCEPT ![i] = [pc |-> "checked", kind |-> "Spawn", parent |-> p,
                                           base |-> ctxs[p].Context, err |-> ErrNil,
                                           hooks |-> <<>>, baseErr |-> ErrNil,
                                           http |-> NoHTTP]]
    /\ UNCHANGED <<factory, ctxs, comp, ran, shut, unmounted, hist>>

\* HookCalls walking the providers last registered first
HookCallsReverse(name, upto) ==
    [p \in 1..upto |-> [hook |-> name, provider |-> NumProviders + 1 - p]]

\* the hook `name` invoked on the providers 1..upto, in registration order
HookCalls(name, upto) == [p \in 1..upto |-> [hook |-> name, provider |-> p]]

\* Factory.newCtx: count the context, allocate it, copy the defaults, run the
\* providers' OnNewContext hooks, start the deadline waiter of a bounded context.
\* newPanic = 0: no hook panics, and the creation call goes on to pcAfter having
\* invoked hooksAfter. newPanic = p: the hook of provider p panics; the panic leaves
\* newCtx and the creation call, the context stays counted and no waiter is started.
newCtx(i, ttl, newPanic, pcAfter, hooksAfter) ==
    /\ calls[i].pc = "checked"
    /\ factory' = [factory EXCEPT !.openContexts = @ + 1, !.openContextWg = @ + 1]
    /\ ctxs' = [ctxs EXCEPT ![i] =
          [alloc |-> TRUE, id |-> IdOf(i), Context |-> calls[i].base,
           contextValues |->
               [k \in AllKeys |-> IF factory.defaultContextValues[k] # Absent
                                  THEN factory.defaultContextValues[k]
                                  ELSE IF k = RequestIDKey THEN IdOf(i) ELSE Absent],
           isComplete |-> FALSE, err |-> ErrNil,
           onComplete |-> <<>>, complete |-> FALSE, deadline |-> ttl,
           completeBy |-> 0, activeTimer |-> "nil", timerAt |-> 0,
           via |-> 0, lookup |-> NoLookup]]
    /\ IF newPanic = 0
       THEN /\ comp' = [comp EXCEPT ![i][Waiter].pc = IF ttl > 0 THEN "start" ELSE "idle"]
            /\ calls' = [calls EXCEPT ![i].pc = pcAfter,
                                      ![i].hooks = HookCalls("OnNewContext", NumProviders)
                                                       \o hooksAfter]
       ELSE /\ UNCHANGED comp
            /\ calls' = [calls EXCEPT ![i].pc = "panicked",
                                      ![i].hooks = HookCalls("OnNewContext", newPanic)]
    /\ UNCHANGED <<ran, shut, unmounted, hist>>

\* the tail of NewCtx / Wrap: the factory's requestTTL is the deadline
WrapBuild(i, newPanic) ==
    /\ calls[i].kind = "Wrap"
    /\ newCtx(i, factory.requestTTL, newPanic, "open", <<>>)

\* the tail of Spawn, lines 126-142: the deadline comes from completeBy; newCtx, then
\* the providers' OnSpawnedContext hooks. spawnPanic = p: the hook of provider p
\* panics and the deferred function recovers.
SpawnBuild(i, ttl, newPanic, spawnPanic) ==
    /\ calls[i].kind = "Spawn"
    /\ newCtx(i, ttl, newPanic,
              IF spawnPanic = 0 THEN "open" ELSE "recover",
              HookCalls("OnSpawnedContext",
                        IF spawnPanic = 0 THEN NumProviders ELSE spawnPanic))

\* ------------------------------------------------------------- use of a context
\* the owner of the external context that call i handed to Wrap cancels it
CancelExt(i) ==
    /\ calls[i].kind = "Wrap"
    /\ calls[i].pc = "open"
    /\ calls[i].base # Background
    /\ calls[i].baseErr = ErrNil
    /\ calls' = [calls EXCEPT ![i].baseErr = ErrCanceled]
    /\ UNCHANGED <<factory, ctxs, comp, ran, shut, unmounted, hist>>

\* context.Defer: append the callback; isComplete is not read
Defer(i) ==
    /\ calls[i].pc = "open"
    /\ Len(ctxs[i].onComplete) < MaxDefer
    /\ LET fn == Len(ctxs[i].onComplete) + 1 IN
        /\ ctxs' = [ctxs EXCEPT ![i].onComplete = Append(@, fn)]
        /\ hist' = [hist EXCEPT !.early[i] =
                        IF ctxs[i].isComplete THEN @ ELSE @ \cup {fn}]
    /\ UNCHANGED <<factory, calls, comp, ran, shut, unmounted>>

\* context.Store: a no-op on a completed context
Store(i, key, value) ==
    /\ calls[i].pc = "open"
    /\ IF ctxs[i].isComplete
       THEN /\ UNCHANGED ctxs
            /\ hist' = [hist EXCEPT !.dropped[i] = TRUE]
       ELSE /\ ctxs' = [ctxs EXCEPT ![i].contextValues[key] = value]
            /\ hist' = [hist EXCEPT !.stored[i] = @ \cup {key},
                                    !.last[i][key] = value]
    /\ UNCHANGED <<factory, calls, comp, ran, shut, unmounted>>

\* ------------------------------------------------------------- completion
\* has the decrement of context i's completion been executed
Accounted(i) == \E c \in Completers : comp[i][c].pc \in {"loop", "done"}

\* Enter without the isComplete guard: every caller performs the completion
EnterUnguarded(i, c, err) ==
    /\ ctxs' = [ctxs EXCEPT ![i].isComplete = TRUE]
    /\ comp' = [comp EXCEPT ![i][c] = [pc |-> "account", err |-> err, idx |-> 0, call |-> "none"]]
    /\ UNCHANGED <<factory, calls, ran, shut, unmounted, hist>>

\* CompleteWithError, lines 202-211: the first caller sets isComplete, the others return
Enter(i, c, err) ==
    /\ IF ctxs[i].isComplete
       THEN /\ comp' = [comp EXCEPT ![i][c].pc = "noop"]
            /\ UNCHANGED ctxs
       ELSE /\ ctxs' = [ctxs EXCEPT ![i].isComplete = TRUE]
            /\ comp' = [comp EXCEPT ![i][c] = [pc |-> "account", err |-> err, idx |-> 0, call |-> "none"]]
    /\ UNCHANGED <<factory, calls, ran, shut, unmounted, hist>>

\* Complete / CompleteWithError called by goroutine c on a context it was handed
CompleteWithError(i, c, err) ==
    /\ c \in Callers
    /\ calls[i].pc = "open"
    /\ comp[i][c].pc = "idle"
    /\ Enter(i, c, err)

\* CompleteAccount that clears the values before the callbacks run
CompleteAccountClear(i, c) ==
    /\ comp[i][c].pc = "account"
    /\ ctxs' = [ctxs EXCEPT ![i].err =
                    IF comp[i][c].err # ErrNil THEN comp[i][c].err
                    ELSE IF @ = ErrNil THEN ErrComplete ELSE @,
                            ![i].contextValues = EmptyMap]
    /\ factory' = [factory EXCEPT !.openContexts = @ - 1, !.openContextWg = @ - 1]
    /\ comp' = [comp EXCEPT ![i][c].pc = "loop", ![i][c].idx = Len(ctxs[i].onComplete)]
    /\ UNCHANGED <<calls, ran, shut, unmounted, hist>>

\* CompleteAccount that releases the drain barrier but leaves the counter alone
CompleteAccountNoDecrement(i, c) ==
    /\ comp[i][c].pc = "account"
    /\ ctxs' = [ctxs EXCEPT ![i].err =
                    IF comp[i][c].err # ErrNil THEN comp[i][c].err
                    ELSE IF @ = ErrNil THEN ErrComplete ELSE @]
    /\ factory' = [factory EXCEPT !.openContextWg = @ - 1]
    /\ comp' = [comp EXCEPT ![i][c].pc = "loop", ![i][c].idx = Len(ctxs[i].onComplete)]
    /\ UNCHANGED <<calls, ran, shut, unmounted, hist>>

\* CompleteAccount that stores the error it was handed, nil included
CompleteAccountNilError(i, c) ==
    /\ comp[i][c].pc = "account"
    /\ ctxs' = [ctxs EXCEPT ![i].err = comp[i][c].err]
    /\ factory' = [factory EXCEPT !.openContexts = @ - 1, !.openContextWg = @ - 1]
    /\ comp' = [comp EXCEPT ![i][c].pc = "loop", ![i][c].idx = Len(ctxs[i].onComplete)]
    /\ UNCHANGED <<calls, ran, shut, unmounted, hist>>

\* CompleteWithError, lines 212-223: record the error, decrement the counter, release
\* the drain barrier, read the length of onComplete for the loop
CompleteAccount(i, c) ==
    /\ comp[i][c].pc = "account"
    /\ ctxs' = [ctxs EXCEPT ![i].err =
                    IF comp[i][c].err # ErrNil THEN comp[i][c].err
                    ELSE IF @ = ErrNil THEN ErrComplete ELSE @]
    /\ factory' = [factory EXCEPT !.openContexts = @ - 1, !.openContextWg = @ - 1]
    /\ comp' = [comp EXCEPT ![i][c].pc = "loop", ![i][c].idx = Len(ctxs[i].onComplete)]
    /\ UNCHANGED <<calls, ran, shut, unmounted, hist>>

\* CompleteCallback walking onComplete from the first registered callback upwards
CompleteCallbackFIFO(i, c) ==
    /\ comp[i][c].pc = "loop"
    /\ comp[i][c].idx >= 1
    /\ ran' = [ran EXCEPT ![i] = Append(@, ctxs[i].onComplete[Len(ran[i]) + 1])]
    /\ comp' = [comp EXCEPT ![i][c].idx = @ - 1]
    /\ UNCHANGED <<factory, calls, ctxs, shut, unmounted, hist>>

\* CompleteWithError, lines 223-225: one iteration of the LIFO loop
CompleteCallback(i, c) ==
    /\ comp[i][c].pc = "loop"
    /\ comp[i][c].idx >= 1
    /\ ran' = [ran EXCEPT ![i] = Append(@, ctxs[i].onComplete[comp[i][c].idx])]
    /\ comp' = [comp EXCEPT ![i][c].idx = @ - 1]
    /\ UNCHANGED <<factory, calls, ctxs, shut, unmounted, hist>>

\* CompleteFinish that also closes and clears the contexts spawned from context i
CompleteFinishCascade(i, c) ==
    /\ comp[i][c].pc = "loop"
    /\ comp[i][c].idx = 0
    /\ ctxs' = [j \in CtxIds |->
                  IF j = i \/ (calls[j].pc = "open" /\ calls[j].parent = i)
                  THEN [ctxs[j] EXCEPT !.complete = TRUE, !.contextValues = EmptyMap]
                  ELSE ctxs[j]]
    /\ comp' = [comp EXCEPT ![i][c].pc = "done"]
    /\ UNCHANGED <<factory, calls, ran, shut, unmounted, hist>>

\* CompleteFinish that does not wait for the callback loop to end
CompleteFinishEarly(i, c) ==
    /\ comp[i][c].pc = "loop"
    /\ ctxs' = [ctxs EXCEPT ![i].complete = TRUE, ![i].contextValues = EmptyMap]
    /\ comp' = [comp EXCEPT ![i][c].pc = "done"]
    /\ UNCHANGED <<factory, calls, ran, shut, unmounted, hist>>

\* CompleteFinish that closes the signal and keeps the values
CompleteFinishNoClear(i, c) ==
    /\ comp[i][c].pc = "loop"
    /\ comp[i][c].idx = 0
    /\ ctxs' = [ctxs EXCEPT ![i].complete = TRUE]
    /\ comp' = [comp EXCEPT ![i][c].pc = "done"]
    /\ UNCHANGED <<factory, calls, ran, shut, unmounted, hist>>

\* CompleteWithError, lines 226-234: close the signal and clear the values
CompleteFinish(i, c) ==
    /\ comp[i][c].pc = "loop"
    /\ comp[i][c].idx = 0
    /\ ctxs' = [ctxs EXCEPT ![i].complete = TRUE, ![i].contextValues = EmptyMap]
    /\ comp' = [comp EXCEPT ![i][c].pc = "done"]
    /\ UNCHANGED <<factory, calls, ran, shut, unmounted, hist>>

\* Spawn, lines 131-136: the deferred function completes the child
SpawnRecover(i) ==
    /\ calls[i].pc = "recover"
    /\ comp[i][1].pc = "idle"
    /\ Enter(i, 1, ErrComplete)

\* Spawn after the recover: the call returns its zero results, a nil Context and a
\* nil error
SpawnReturn(i) ==
    /\ calls[i].pc = "recover"
    /\ comp[i][1].pc \in {"noop", "done"}
    /\ calls' = [calls EXCEPT ![i].pc = "nil"]
    /\ UNCHANGED <<factory, ctxs, comp, ran, shut, unmounted, hist>>

\* ------------------------------------------------------------- Attach and the chain
\* what a caller can hand to Attach: an external context, a Scoped Context of the
\* factory, or context.WithValue(ctx, "k", "v1") of such a Scoped Context
Attachable ==
    [kind : {"ext"}, ext : ExtCtxs, of : {0}]
        \cup [kind : {"scene", "derived"}, ext : {Background}, of : CtxIds]

\* context.Attach: of a Scoped Context the base context is taken, any other context
\* becomes the base context as it is; c.mu is not taken
Attach(i, ctx) ==
    /\ calls[i].pc = "open"
    /\ ctx.kind # "ext" => calls[ctx.of].pc = "open"
    /\ ctxs' = [ctxs EXCEPT
          ![i].Context = CASE ctx.kind = "scene" -> ctxs[ctx.of].Context
                           [] ctx.kind = "derived" -> [Background EXCEPT !["k"] = "v1"]
                           [] OTHER -> ctx.ext,
          ![i].via = CASE ctx.kind = "scene" -> ctxs[ctx.of].via
                       [] ctx.kind = "derived" -> ctx.of
                       [] OTHER -> 0]
    /\ UNCHANGED <<factory, calls, comp, ran, shut, unmounted, hist>>

\* a goroutine calls Value(key) on context i
ValueCall(i, key) ==
    /\ calls[i].pc = "open"
    /\ ctxs[i].lookup.pc = "idle"
    /\ ctxs' = [ctxs EXCEPT ![i].lookup =
                    [pc |-> "in", key |-> key, stack |-> <<i>>, result |-> Absent]]
    /\ UNCHANGED <<factory, calls, comp, ran, shut, unmounted, hist>>

\* context.Value, lines 179-191, executing for the context on top of the stack: the
\* own map, then c.Context.Value(key); a context derived from a Scoped Context that
\* has no value for the key calls that context's Value, which is a new frame. When
\* that context's Value is on the stack already the same frames follow for ever, and
\* the goroutine ends with the stack exhausted.
ValueStep(i) ==
    /\ ctxs[i].lookup.pc = "in"
    /\ LET l == ctxs[i].lookup
           at == l.stack[Len(l.stack)]
           own == ctxs[at].contextValues[l.key]
           base == ctxs[at].Context[l.key]
           next == ctxs[at].via
       IN ctxs' = [ctxs EXCEPT ![i].lookup =
              IF own # Absent THEN [l EXCEPT !.pc = "returned", !.result = own]
              ELSE IF base # Absent THEN [l EXCEPT !.pc = "returned", !.result = base]
              ELSE IF next = 0 THEN [l EXCEPT !.pc = "returned"]
              ELSE IF \E n \in 1..Len(l.stack) : l.stack[n] = next
                   THEN [l EXCEPT !.pc = "overflow"]
                   ELSE [l EXCEPT !.stack = Append(@, next)]]
    /\ UNCHANGED <<factory, calls, comp, ran, shut, unmounted, hist>>

\* the caller is done with the value it was returned
ValueReturn(i) ==
    /\ ctxs[i].lookup.pc = "returned"
    /\ ctxs' = [ctxs EXCEPT ![i].lookup = NoLookup]
    /\ UNCHANGED <<factory, calls, comp, ran, shut, unmounted, hist>>

\* ------------------------------------------------------------- the context mutex
\* The steps above take c.mu and release it within one step. Below the lock is held
\* across steps: by a method a deferred callback calls on its own context, and by the
\* tail of CompleteWithError. The goroutine that holds c.mu is the one whose position
\* is inside a critical section.
Methods == {"Value", "Store", "Defer", "Complete", "CompleteWithError"}

\* c.mu held from the first Lock of CompleteWithError to the Unlock at its end
muHeldThroughCallbacks(i) ==
    \E c \in Completers : comp[i][c].pc \in {"loop", "lock", "locked", "called", "wipe"}

\* c.mu held by a callback's call only, the tail of CompleteWithError running without it
muHeldNotByWipe(i) == \E c \in Completers : comp[i][c].pc = "locked"

\* is c.mu of context i held (Lock and RLock both wait while it is)
muHeld(i) == \E c \in Completers : comp[i][c].pc \in {"locked", "wipe"}

\* the callback that the loop of lines 223-225 has invoked calls method m on its own
\* context and reaches the Lock (RLock for Value) at its head
CallbackCalls(i, c, m) ==
    /\ comp[i][c].pc = "loop"
    /\ comp[i][c].idx >= 1
    /\ m = "Defer" => Len(ctxs[i].onComplete) < MaxDefer
    /\ comp' = [comp EXCEPT ![i][c].pc = "lock", ![i][c].call = m]
    /\ UNCHANGED <<factory, calls, ctxs, ran, shut, unmounted, hist>>

\* the Lock / RLock of the called method returns
CallbackLocked(i, c) ==
    /\ comp[i][c].pc = "lock"
    /\ ~muHeld(i)
    /\ comp' = [comp EXCEPT ![i][c].pc = "locked"]
    /\ UNCHANGED <<factory, calls, ctxs, ran, shut, unmounted, hist>>

\* the body of the called method and its Unlock: Value reads (179-191), Defer appends
\* (96-100), Store returns on isComplete (103-111), Complete / CompleteWithError
\* return on isComplete (202-206) and would else set it and go on to store the error
\* and decrement
CallbackUnlock(i, c) ==
    /\ comp[i][c].pc = "locked"
    /\ LET m == comp[i][c].call IN
        /\ ctxs' = [ctxs EXCEPT ![i] =
              CASE m = "Defer" -> [@ EXCEPT !.onComplete = Append(@, Len(@) + 1)]
                [] m = "Store" /\ ~ctxs[i].isComplete ->
                       [@ EXCEPT !.contextValues["k"] = "v1"]
                [] m \in {"Complete", "CompleteWithError"} /\ ~ctxs[i].isComplete ->
                       [@ EXCEPT !.isComplete = TRUE, !.err = ErrComplete]
                [] OTHER -> @]
        /\ factory' = IF m \in {"Complete", "CompleteWithError"} /\ ~ctxs[i].isComplete
                      THEN [factory EXCEPT !.openContexts = @ - 1, !.openContextWg = @ - 1]
                      ELSE factory
        /\ hist' = [hist EXCEPT !.dropped[i] =
                        IF m = "Store" /\ ctxs[i].isComplete THEN TRUE ELSE @]
    /\ comp' = [comp EXCEPT ![i][c].pc = "called"]
    /\ UNCHANGED <<calls, ran, shut, unmounted>>

\* lines 223-225: the callback that made the call returns to the loop
CallbackReturn(i, c) ==
    /\ comp[i][c].pc = "called"
    /\ ran' = [ran EXCEPT ![i] = Append(@, ctxs[i].onComplete[comp[i][c].idx])]
    /\ comp' = [comp EXCEPT ![i][c].pc = "loop", ![i][c].idx = @ - 1,
                            ![i][c].call = "none"]
    /\ UNCHANGED <<factory, calls, ctxs, shut, unmounted, hist>>

\* CompleteWithError, lines 226-227: after the loop, take c.mu and close the signal
CompleteLockClose(i, c) ==
    /\ comp[i][c].pc = "loop"
    /\ comp[i][c].idx = 0
    /\ ~muHeld(i)
    /\ ctxs' = [ctxs EXCEPT ![i].complete = TRUE]
    /\ comp' = [comp EXCEPT ![i][c].pc = "wipe"]
    /\ UNCHANGED <<factory, calls, ran, shut, unmounted, hist>>

\* CompleteWithError, lines 230-232: one iteration of the range over the map deletes
\* a key, in the order the map yields them
CompleteWipeKey(i, c, key) ==
    /\ comp[i][c].pc = "wipe"
    /\ ctxs[i].contextValues[key] # Absent
    /\ ctxs' = [ctxs EXCEPT ![i].contextValues[key] = Absent]
    /\ UNCHANGED <<factory, calls, comp, ran, shut, unmounted, hist>>

\* CompleteWithError, lines 233-234: the map emptied, set it to nil and unlock
CompleteUnlock(i, c) ==
    /\ comp[i][c].pc = "wipe"
    /\ ctxs[i].contextValues = EmptyMap
    /\ comp' = [comp EXCEPT ![i][c].pc = "done"]
    /\ UNCHANGED <<factory, calls, ctxs, ran, shut, unmounted, hist>>

\* ------------------------------------------------------------- deadline waiter
\* Deadlines are counted, not measured: completeBy = 0 is the deadline a context was
\* created with and completeBy = n the one the n-th Extend asked for, each later than
\* the one before. A timer is armed for the deadline numbered timerAt.

\* context.Extend: set the new deadline and start a goroutine that refreshes the timer
Extend(i) ==
    /\ calls[i].pc = "open"
    /\ ctxs[i].completeBy < MaxExtend
    /\ ctxs' = [ctxs EXCEPT ![i].deadline = 1, ![i].completeBy = @ + 1]
    /\ comp' = [comp EXCEPT ![i][NumCallers + ctxs[i].completeBy + 1].pc = "start"]
    /\ UNCHANGED <<factory, calls, ran, shut, unmounted, hist>>

\* the deadline asked for by the call that started goroutine w
StartedFor(w) == IF w = Waiter THEN 0 ELSE w - NumCallers

\* refreshDeadline that monitors the timer whether it created it or reset it
refreshDeadlineAlwaysMonitor(i, w) ==
    /\ comp[i][w].pc = "start"
    /\ \E t \in IF ctxs[i].activeTimer = "fired" THEN {"fired", "armed"} ELSE {"armed"} :
          ctxs' = [ctxs EXCEPT ![i].activeTimer = t, ![i].timerAt = ctxs[i].completeBy]
    /\ comp' = [comp EXCEPT ![i][w].pc = "select"]
    /\ hist' = [hist EXCEPT !.due[i] =
                    IF w \in Refreshers /\ ctxs[i].activeTimer # "fired"
                    THEN StartedFor(w) ELSE @]
    /\ UNCHANGED <<factory, calls, ran, shut, unmounted>>

\* refreshDeadline arming the timer for the deadline its goroutine was started for
refreshDeadlineStale(i, w) ==
    /\ comp[i][w].pc = "start"
    /\ \E t \in IF ctxs[i].activeTimer = "fired" THEN {"fired", "armed"} ELSE {"armed"} :
          ctxs' = [ctxs EXCEPT ![i].activeTimer = t, ![i].timerAt = StartedFor(w)]
    /\ comp' = [comp EXCEPT ![i][w].pc =
                    IF ctxs[i].activeTimer = "nil" THEN "select" ELSE "exit"]
    /\ hist' = [hist EXCEPT !.due[i] =
                    IF w \in Refreshers /\ ctxs[i].activeTimer # "fired"
                    THEN StartedFor(w) ELSE @]
    /\ UNCHANGED <<factory, calls, ran, shut, unmounted>>

\* refreshDeadline, lines 45-52, run by goroutine w: reset the timer there is to
\* completeBy, or create it and monitor. Reset of a timer that has fired and whose
\* channel was not read leaves the value in the channel or drops it, depending on
\* the Go release.
refreshDeadline(i, w) ==
    /\ comp[i][w].pc = "start"
    /\ \E t \in IF ctxs[i].activeTimer = "fired" THEN {"fired", "armed"} ELSE {"armed"} :
          ctxs' = [ctxs EXCEPT ![i].activeTimer = t, ![i].timerAt = ctxs[i].completeBy]
    /\ comp' = [comp EXCEPT ![i][w].pc =
                    IF ctxs[i].activeTimer = "nil" THEN "select" ELSE "exit"]
    /\ hist' = [hist EXCEPT !.due[i] =
                    IF w \in Refreshers /\ ctxs[i].activeTimer # "fired"
                    THEN StartedFor(w) ELSE @]
    /\ UNCHANGED <<factory, calls, ran, shut, unmounted>>

\* the deadline the timer is armed for passes
TimerFire(i) ==
    /\ ctxs[i].activeTimer = "armed"
    /\ ctxs' = [ctxs EXCEPT ![i].activeTimer = "fired"]
    /\ UNCHANGED <<factory, calls, comp, ran, shut, unmounted, hist>>

\* WaiterTimeout that does not wait for the timer
WaiterTimeoutEarly(i, w) ==
    /\ comp[i][w].pc = "select"
    /\ Enter(i, w, Trace(ErrTimeout))

\* refreshDeadline, lines 59-73: the timer won the select
WaiterTimeout(i, w) ==
    /\ comp[i][w].pc = "select"
    /\ ctxs[i].activeTimer = "fired"
    /\ Enter(i, w, Trace(ErrTimeout))

\* refreshDeadline, lines 74-75: the completion signal won the select
WaiterExit(i, w) ==
    /\ comp[i][w].pc = "select"
    /\ ctxs[i].complete
    /\ comp' = [comp EXCEPT ![i][w].pc = "exit"]
    /\ UNCHANGED <<factory, calls, ctxs, ran, shut, unmounted, hist>>

\* ------------------------------------------------------------- shutdown
\* the contexts the factory counts as open
OpenSet == {i \in CtxIds : calls[i].pc = "open" /\ ~Accounted(i)}

\* Shutdown that stores the closed flag instead of swapping it: every caller goes on
ShutdownStore(s) ==
    /\ shut[s].pc = "idle"
    /\ factory' = [factory EXCEPT !.closed = TRUE]
    /\ shut' = [shut EXCEPT ![s].pc = "close", ![s].admitted = TRUE]
    /\ hist' = [hist EXCEPT !.openAtCall = OpenSet]
    /\ UNCHANGED <<calls, ctxs, comp, ran, unmounted>>

\* Shutdown, lines 214-216: the compare-and-swap on closed admits one caller
ShutdownCAS(s) ==
    /\ shut[s].pc = "idle"
    /\ IF factory.closed
       THEN /\ shut' = [shut EXCEPT ![s].pc = "returned", ![s].result = FALSE]
            /\ UNCHANGED <<factory, hist>>
       ELSE /\ factory' = [factory EXCEPT !.closed = TRUE]
            /\ shut' = [shut EXCEPT ![s].pc = "close", ![s].admitted = TRUE]
            /\ hist' = [hist EXCEPT !.openAtCall = OpenSet]
    /\ UNCHANGED <<calls, ctxs, comp, ran, unmounted>>

\* ShutdownClose that leaves the Done signal open
ShutdownCloseNoSignal(s) ==
    /\ shut[s].pc = "close"
    /\ shut' = [shut EXCEPT ![s].pc = "select", ![s].drain = "waiting",
                            ![s].timer = "armed"]
    /\ UNCHANGED <<factory, calls, ctxs, comp, ran, unmounted, hist>>

\* Shutdown, lines 217-222 and 240-243: close the Done signal, start the goroutine
\* that waits on the drain barrier, arm time.After(deadline) and block in the select
ShutdownClose(s) ==
    /\ shut[s].pc = "close"
    /\ factory' = [factory EXCEPT !.done = TRUE, !.doneCloses = @ + 1]
    /\ shut' = [shut EXCEPT ![s].pc = "select", ![s].drain = "waiting",
                            ![s].timer = "armed"]
    /\ UNCHANGED <<calls, ctxs, comp, ran, unmounted, hist>>

\* Shutdown, lines 219-222: openContextWg.Wait() returns at zero, c is closed
DrainWait(s) ==
    /\ shut[s].pc = "select"
    /\ shut[s].drain = "waiting"
    /\ factory.openContextWg = 0
    /\ shut' = [shut EXCEPT ![s].drain = "exited", ![s].c = TRUE]
    /\ UNCHANGED <<factory, calls, ctxs, comp, ran, unmounted, hist>>

\* the shutdown deadline passes
ShutdownTimerFire(s) ==
    /\ shut[s].pc = "select"
    /\ shut[s].timer = "armed"
    /\ shut' = [shut EXCEPT ![s].timer = "fired"]
    /\ hist' = [hist EXCEPT !.pendingAtFire = hist.openAtCall \cap OpenSet]
    /\ UNCHANGED <<factory, calls, ctxs, comp, ran, unmounted>>

\* Shutdown, lines 240-245: the select takes a ready case; the result is fixed here
ShutdownSelect(s, drained) ==
    /\ shut[s].pc = "select"
    /\ IF drained THEN shut[s].c ELSE shut[s].timer = "fired"
    /\ shut' = [shut EXCEPT ![s].pc = "unmount", ![s].result = drained,
                            ![s].k = NumProviders]
    /\ UNCHANGED <<factory, calls, ctxs, comp, ran, unmounted, hist>>

\* Shutdown, lines 240-245, with a deadline that is long against the scheduler: the
\* deadline passes only while the barrier is held above zero, and the select takes
\* the timer case at once
ShutdownTimeout(s) ==
    /\ shut[s].pc = "select"
    /\ shut[s].timer = "armed"
    /\ ~shut[s].c
    /\ factory.openContextWg > 0
    /\ shut' = [shut EXCEPT ![s].timer = "fired", ![s].pc = "unmount",
                            ![s].result = FALSE, ![s].k = NumProviders]
    /\ hist' = [hist EXCEPT !.pendingAtFire = hist.openAtCall \cap OpenSet]
    /\ UNCHANGED <<factory, calls, ctxs, comp, ran, unmounted>>

\* ShutdownUnmount walking the providers in registration order
ShutdownUnmountForward(s, outcome) ==
    /\ shut[s].pc = "unmount"
    /\ IF shut[s].k = NumProviders
       THEN /\ factory' = [factory EXCEPT !.log = Append(@, "panic")]
            /\ UNCHANGED unmounted
       ELSE /\ factory' = [factory EXCEPT !.log =
                               IF outcome = "ok" THEN @ ELSE Append(@, outcome)]
            /\ unmounted' = Append(unmounted, [by |-> s,
                                               provider |-> NumProviders - shut[s].k,
                                               outcome |-> outcome])
    /\ shut' = [shut EXCEPT ![s].k = @ - 1,
                            ![s].pc = IF shut[s].k = 0 THEN "returned" ELSE "unmount"]
    /\ UNCHANGED <<calls, ctxs, comp, ran, hist>>

\* ShutdownUnmount without the recover: a panic ends the loop and reaches the caller
ShutdownUnmountNoRecover(s, outcome) ==
    /\ shut[s].pc = "unmount"
    /\ IF shut[s].k = NumProviders
       THEN /\ UNCHANGED <<factory, unmounted>>
            /\ shut' = [shut EXCEPT ![s].pc = "panicked"]
       ELSE /\ factory' = [factory EXCEPT !.log =
                               IF outcome = "err" THEN Append(@, outcome) ELSE @]
            /\ unmounted' = Append(unmounted, [by |-> s, provider |-> shut[s].k + 1,
                                               outcome |-> outcome])
            /\ shut' = [shut EXCEPT ![s].k = @ - 1,
                            ![s].pc = IF outcome = "panic" THEN "panicked"
                                      ELSE IF shut[s].k = 0 THEN "returned"
                                      ELSE "unmount"]
    /\ UNCHANGED <<calls, ctxs, comp, ran, hist>>

\* Shutdown, lines 223-239: one iteration of the deferred unmount loop. k runs from
\* len(injectors) down to 0; injectors[len] is an index out of range, which panics
\* and is recovered and logged like a panic of a hook. Provider k+1 is injectors[k].
ShutdownUnmount(s, outcome) ==
    /\ shut[s].pc = "unmount"
    /\ IF shut[s].k = NumProviders
       THEN /\ factory' = [factory EXCEPT !.log = Append(@, "panic")]
            /\ UNCHANGED unmounted
       ELSE /\ factory' = [factory EXCEPT !.log =
                               IF outcome = "ok" THEN @ ELSE Append(@, outcome)]
            /\ unmounted' = Append(unmounted, [by |-> s, provider |-> shut[s].k + 1,
                                               outcome |-> outcome])
    /\ shut' = [shut EXCEPT ![s].k = @ - 1,
                            ![s].pc = IF shut[s].k = 0 THEN "returned" ELSE "unmount"]
    /\ UNCHANGED <<calls, ctxs, comp, ran, hist>>

\* Shutdown callers take their turn in order
ShutdownTurn(s) == \A t \in Shutdowners : t < s => shut[t].pc # "idle"

\* ------------------------------------------------------------- defaults
\* Factory.GetDefault
GetDefault(key) == factory.defaultContextValues[key]

\* RLock returns at once unless a goroutine is blocked in Lock
RLockFree == factory.defaultsLock.pending = {}

\* the write of StoreDefault dropped
StoredDefaultsDropped(m, key, value) == m

\* StoreDefault, line 174: the defaults after the write (defaultContextCt, the number
\* of keys, only sizes the maps of new contexts)
StoredDefaults(m, key, value) == [m EXCEPT ![key] = value]

\* Factory.StoreDefault called from a goroutine that holds no lock: with no reader
\* inside, Lock, the write and Unlock; behind readers the caller blocks in Lock
StoreDefault(key, value) ==
    /\ ~\E w \in factory.defaultsLock.pending : w.by = "caller"
    /\ IF factory.defaultsLock.readers = 0
       THEN /\ factory' = [factory EXCEPT !.defaultContextValues =
                                             StoredDefaults(@, key, value)]
            /\ hist' = [hist EXCEPT !.defaults[key] = value]
       ELSE /\ factory' = [factory EXCEPT !.defaultsLock.pending =
                               @ \cup {[by |-> "caller", n |-> 0,
                                        key |-> key, value |-> value]}]
            /\ UNCHANGED hist
    /\ UNCHANGED <<calls, ctxs, comp, ran, shut, unmounted>>

\* a goroutine blocked in Lock gets the lock when the last reader has left: the write
\* and Unlock, and StoreDefault returns to the hook or caller that called it
StoreDefaultAcquire(w) ==
    /\ w \in factory.defaultsLock.pending
    /\ factory.defaultsLock.readers = 0
    /\ factory' = [factory EXCEPT !.defaultsLock.pending = @ \ {w},
                                  !.defaultContextValues =
                                       StoredDefaults(@, w.key, w.value)]
    /\ hist' = [hist EXCEPT !.defaults[w.key] = w.value]
    /\ calls' = IF w.by = "ctx" THEN [calls EXCEPT ![w.n].pc = "hooked"] ELSE calls
    /\ shut' = IF w.by = "shutdown" THEN [shut EXCEPT ![w.n].pc = "unmounting"] ELSE shut
    /\ UNCHANGED <<ctxs, comp, ran, unmounted>>

\* newCtx, lines 275-286: count the context, allocate it, store its id
newCtxCount(i) ==
    /\ calls[i].pc = "checked"
    /\ factory' = [factory EXCEPT !.openContexts = @ + 1, !.openContextWg = @ + 1]
    /\ ctxs' = [ctxs EXCEPT ![i] =
          [alloc |-> TRUE, id |-> IdOf(i), Context |-> calls[i].base,
           contextValues |-> [EmptyMap EXCEPT ![RequestIDKey] = IdOf(i)],
           isComplete |-> FALSE, err |-> ErrNil,
           onComplete |-> <<>>, complete |-> FALSE, deadline |-> 0,
           completeBy |-> 0, activeTimer |-> "nil", timerAt |-> 0,
           via |-> 0, lookup |-> NoLookup]]
    /\ calls' = [calls EXCEPT ![i].pc = "rlock"]
    /\ UNCHANGED <<comp, ran, shut, unmounted, hist>>

\* newCtx that takes the read lock and goes on to the hooks without copying the defaults
newCtxDefaultsSkipped(i) ==
    /\ calls[i].pc = "rlock"
    /\ RLockFree
    /\ factory' = [factory EXCEPT !.defaultsLock.readers = @ + 1]
    /\ calls' = [calls EXCEPT ![i].pc = "hooks"]
    /\ UNCHANGED <<ctxs, comp, ran, shut, unmounted, hist>>

\* newCtx, lines 288-293: take the read lock and copy the defaults into the context
newCtxDefaults(i) ==
    /\ calls[i].pc = "rlock"
    /\ RLockFree
    /\ factory' = [factory EXCEPT !.defaultsLock.readers = @ + 1]
    /\ ctxs' = [ctxs EXCEPT ![i].contextValues =
                    [k \in AllKeys |-> IF factory.defaultContextValues[k] # Absent
                                       THEN factory.defaultContextValues[k]
                                       ELSE @[k]]]
    /\ calls' = [calls EXCEPT ![i].pc = "hooks"]
    /\ UNCHANGED <<comp, ran, shut, unmounted, hist>>

\* newCtx, lines 295-299: an OnNewContext hook calls GetDefault on the accessor its
\* provider kept from OnFactoryMount; the read lock is asked for a second time, and
\* the hook waits in RLock for as long as a goroutine is blocked in Lock (which that
\* goroutine is until the readers have left, this one among them)
HookGetDefault(i) ==
    /\ calls[i].pc = "hooks"
    /\ calls' = [calls EXCEPT ![i].pc = IF RLockFree THEN "hooked" ELSE "rlockwait"]
    /\ UNCHANGED <<factory, ctxs, comp, ran, shut, unmounted, hist>>

\* newCtx, lines 295-299: an OnNewContext hook calls StoreDefault on the accessor; its
\* goroutine holds the read lock, so Lock blocks
HookStoreDefault(i, key, value) ==
    /\ calls[i].pc = "hooks"
    /\ factory' = [factory EXCEPT !.defaultsLock.pending =
                       @ \cup {[by |-> "ctx", n |-> i, key |-> key, value |-> value]}]
    /\ calls' = [calls EXCEPT ![i].pc = "lockwait"]
    /\ UNCHANGED <<ctxs, comp, ran, shut, unmounted, hist>>

\* newCtx, lines 300-312: the hooks have returned; set the deadline, start the deadline
\* goroutine of a bounded context, release the read lock and return
newCtxReturn(i, ttl) ==
    /\ calls[i].pc \in {"hooks", "hooked"}
    /\ factory' = [factory EXCEPT !.defaultsLock.readers = @ - 1]
    /\ ctxs' = [ctxs EXCEPT ![i].deadline = ttl]
    /\ comp' = [comp EXCEPT ![i][Waiter].pc = IF ttl > 0 THEN "start" ELSE "idle"]
    /\ calls' = [calls EXCEPT ![i].pc = "open",
                              ![i].hooks = HookCalls("OnNewContext", NumProviders)]
    /\ UNCHANGED <<ran, shut, unmounted, hist>>

\* Shutdown, lines 225-227: an iteration of the unmount loop takes the read lock
UnmountRLock(s) ==
    /\ shut[s].pc = "unmount"
    /\ RLockFree
    /\ factory' = [factory EXCEPT !.defaultsLock.readers = @ + 1]
    /\ shut' = [shut EXCEPT ![s].pc = "unmounting"]
    /\ UNCHANGED <<calls, ctxs, comp, ran, unmounted, hist>>

\* Shutdown, line 234: the OnFactoryUnmount hook of injectors[k] calls StoreDefault on
\* the accessor it is handed; its goroutine holds the read lock, so Lock blocks
UnmountStoreDefault(s, key, value) ==
    /\ shut[s].pc = "unmounting"
    /\ shut[s].k < NumProviders
    /\ factory' = [factory EXCEPT !.defaultsLock.pending =
                       @ \cup {[by |-> "shutdown", n |-> s, key |-> key, value |-> value]}]
    /\ shut' = [shut EXCEPT ![s].pc = "lockwait"]
    /\ UNCHANGED <<calls, ctxs, comp, ran, unmounted, hist>>

\* Shutdown, lines 227-236: the rest of the iteration: injectors[k] is indexed and its
\* hook returns or panics, the outcome is logged, the read lock is released
UnmountHook(s, outcome) ==
    /\ shut[s].pc = "unmounting"
    /\ IF shut[s].k = NumProviders
       THEN /\ factory' = [factory EXCEPT !.log = Append(@, "panic"),
                                          !.defaultsLock.readers = @ - 1]
            /\ UNCHANGED unmounted
       ELSE /\ factory' = [factory EXCEPT !.log =
                               IF outcome = "ok" THEN @ ELSE Append(@, outcome),
                                          !.defaultsLock.readers = @ - 1]
            /\ unmounted' = Append(unmounted, [by |-> s, provider |-> shut[s].k + 1,
                                               outcome |-> outcome])
    /\ shut' = [shut EXCEPT ![s].k = @ - 1,
                            ![s].pc = IF shut[s].k = 0 THEN "returned" ELSE "unmount"]
    /\ UNCHANGED <<calls, ctxs, comp, ran, hist>>

\* ------------------------------------------------------------- HTTP middleware
\* ServeHTTP runs on one goroutine: its own Complete is recorded as caller 1 of the
\* context and a Complete made by a handler as caller 2.

\* ServeHTTP, lines 75-83: Wrap failed; answer 503 on the writer it was handed and
\* return
ServeUnavailable(i) ==
    /\ calls[i].pc = "refused"
    /\ calls[i].http.phase = "none"
    /\ calls' = [calls EXCEPT ![i].http.phase = "returned"]
    /\ UNCHANGED <<factory, ctxs, comp, ran, shut, unmounted, hist>>

\* ServeHTTP, lines 84-85: store the request's header in the context
ServeHeader(i) ==
    /\ calls[i].pc = "open"
    /\ calls[i].http.phase = "none"
    /\ calls' = [calls EXCEPT ![i].http.phase = "header"]
    /\ ctxs' = IF ctxs[i].isComplete THEN ctxs
               ELSE [ctxs EXCEPT ![i].contextValues[CtxHTTPHeaderKey] = "header"]
    /\ UNCHANGED <<factory, comp, ran, shut, unmounted, hist>>

\* ServeHTTP, lines 86-88: read the request id for the X-Request-ID header; the type
\* assertion panics when the context holds no id any more
ServeRequestID(i) ==
    /\ calls[i].http.phase = "header"
    /\ calls' = [calls EXCEPT ![i].http.phase =
                     IF Value(i, RequestIDKey) = Absent THEN "panicked" ELSE "id"]
    /\ UNCHANGED <<factory, ctxs, comp, ran, shut, unmounted, hist>>

\* ServeHTTP, lines 90-94: store the encoder in the context, run the request hook
ServeEncoder(i) ==
    /\ calls[i].http.phase = "id"
    /\ calls' = [calls EXCEPT ![i].http.phase = "chain", ![i].http.next = 1]
    /\ ctxs' = IF ctxs[i].isComplete THEN ctxs
               ELSE [ctxs EXCEPT ![i].contextValues[CtxHTTPEncoder] = "encoder"]
    /\ UNCHANGED <<factory, comp, ran, shut, unmounted, hist>>

\* is a handler of the chain running
InHandler(i) ==
    /\ calls[i].http.phase = "chain"
    /\ calls[i].http.next <= NumHandlers
    /\ calls[i].http.statusCode < 300

\* the handler that is running completes the context it finds in the request
HandlerComplete(i) ==
    /\ InHandler(i)
    /\ comp[i][2].pc = "idle"
    /\ Enter(i, 2, ErrComplete)

\* ServeHTTP, lines 95-100: the handler returns, having written status (0: none); the
\* loop goes on to the next handler unless the status held is 300 or more
HandlerReturn(i, status) ==
    /\ InHandler(i)
    /\ comp[i][2].pc \in {"idle", "noop", "done"}
    /\ calls' = [calls EXCEPT ![i].http.next = @ + 1,
                              ![i].http.statusCode = IF status = 0 THEN @ ELSE status]
    /\ UNCHANGED <<factory, ctxs, comp, ran, shut, unmounted, hist>>

\* ServeComplete that leaves the context alone when the chain was cut short
ServeCompleteOnSuccess(i) ==
    /\ calls[i].http.phase = "chain"
    /\ ~InHandler(i)
    /\ comp[i][1].pc = "idle"
    /\ IF calls[i].http.statusCode >= 300
       THEN /\ calls' = [calls EXCEPT ![i].http.phase = "returned",
                                      ![i].http.statusCode = 0]
            /\ UNCHANGED <<ctxs, comp>>
       ELSE /\ calls' = [calls EXCEPT ![i].http.phase = "complete"]
            /\ IF ctxs[i].isComplete
               THEN /\ comp' = [comp EXCEPT ![i][1].pc = "noop"]
                    /\ UNCHANGED ctxs
               ELSE /\ ctxs' = [ctxs EXCEPT ![i].isComplete = TRUE]
                    /\ comp' = [comp EXCEPT ![i][1] =
                                    [pc |-> "account", err |-> ErrComplete, idx |-> 0, call |-> "none"]]
    /\ UNCHANGED <<factory, ran, shut, unmounted, hist>>

\* ServeHTTP, line 101: the chain is over or was cut short; newCtx.Complete()
ServeComplete(i) ==
    /\ calls[i].http.phase = "chain"
    /\ ~InHandler(i)
    /\ comp[i][1].pc = "idle"
    /\ calls' = [calls EXCEPT ![i].http.phase = "complete"]
    /\ IF ctxs[i].isComplete
       THEN /\ comp' = [comp EXCEPT ![i][1].pc = "noop"]
            /\ UNCHANGED ctxs
       ELSE /\ ctxs' = [ctxs EXCEPT ![i].isComplete = TRUE]
            /\ comp' = [comp EXCEPT ![i][1] =
                            [pc |-> "account", err |-> ErrComplete, idx |-> 0, call |-> "none"]]
    /\ UNCHANGED <<factory, ran, shut, unmounted, hist>>

\* ServeHTTP, line 102: Complete has returned, and so does ServeHTTP; the capturing
\* writer goes with it
ServeReturn(i) ==
    /\ calls[i].http.phase = "complete"
    /\ comp[i][1].pc \in {"noop", "done"}
    /\ calls' = [calls EXCEPT ![i].http.phase = "returned", ![i].http.statusCode = 0]
    /\ UNCHANGED <<factory, ctxs, comp, ran, shut, unmounted, hist>>

\* ------------------------------------------------------------- specifications
\* a factory configured with MaxTTL = NoTTL
InitNoTTL == Init /\ factory.requestTTL = 0

\* The factory: creations of every kind (the contexts of NewCtx and Wrap unbounded,
\* those of Spawn bounded or not), per context one completing caller and the deadline
\* waiter, and one Shutdown whose providers unmount without failing.
Next ==
    \/ \E i \in CtxIds : NewCtxCheck(i)
    \/ \E i \in CtxIds : WrapCheck(i, Background)
    \/ \E i, p \in CtxIds : SpawnCheck(i, p)
    \/ \E i \in CtxIds : WrapBuild(i, 0)
    \/ \E i \in CtxIds, ttl \in TTLs : SpawnBuild(i, ttl, 0, 0)
    \/ \E i \in CtxIds : CompleteWithError(i, 1, ErrComplete)
    \/ \E i \in CtxIds, c \in Completers : CompleteAccount(i, c)
    \/ \E i \in CtxIds, c \in Completers : CompleteFinish(i, c)
    \/ \E i \in CtxIds : refreshDeadline(i, Waiter)
    \/ \E i \in CtxIds : TimerFire(i)
    \/ \E i \in CtxIds : WaiterTimeout(i, Waiter)
    \/ \E i \in CtxIds : WaiterExit(i, Waiter)
    \/ ShutdownCAS(1)
    \/ ShutdownClose(1)
    \/ DrainWait(1)
    \/ ShutdownTimerFire(1)
    \/ \E drained \in BOOLEAN : ShutdownSelect(1, drained)
    \/ ShutdownUnmount(1, "ok")

Spec == InitNoTTL /\ [][Next]_vars

\* The factory as in Spec, with a Shutdown deadline that is long against the
\* scheduler: a drain wait that can return does so before the deadline passes.
NextPrompt ==
    \/ \E i \in CtxIds : NewCtxCheck(i)
    \/ \E i, p \in CtxIds : SpawnCheck(i, p)
    \/ \E i \in CtxIds : WrapBuild(i, 0)
    \/ \E i \in CtxIds, ttl \in TTLs : SpawnBuild(i, ttl, 0, 0)
    \/ \E i \in CtxIds : CompleteWithError(i, 1, ErrComplete)
    \/ \E i \in CtxIds, c \in Completers : CompleteAccount(i, c)
    \/ \E i \in CtxIds, c \in Completers : CompleteFinish(i, c)
    \/ \E i \in CtxIds : refreshDeadline(i, Waiter)
    \/ \E i \in CtxIds : TimerFire(i)
    \/ \E i \in CtxIds : WaiterTimeout(i, Waiter)
    \/ \E i \in CtxIds : WaiterExit(i, Waiter)
    \/ ShutdownCAS(1)
    \/ ShutdownClose(1)
    \/ DrainWait(1)
    \/ ShutdownTimeout(1)
    \/ ShutdownSelect(1, TRUE)
    \/ ShutdownUnmount(1, "ok")

SpecPrompt == InitNoTTL /\ [][NextPrompt]_vars

\* One context used by several goroutines: Defer, Store and racing completions.
NextCtx ==
    \/ NewCtxCheck(1)
    \/ \E ext \in ExtCtxs : WrapCheck(1, ext)
    \/ WrapBuild(1, 0)
    \/ Defer(1)
    \/ \E key \in Keys, value \in Vals : Store(1, key, value)
    \/ \E c \in Callers, err \in CallerErrs : CompleteWithError(1, c, err)
    \/ \E c \in Completers : CompleteAccount(1, c)
    \/ \E c \in Completers : CompleteCallback(1, c)
    \/ \E c \in Completers : CompleteFinish(1, c)
    \/ refreshDeadline(1, Waiter)
    \/ TimerFire(1)
    \/ WaiterTimeout(1, Waiter)
    \/ WaiterExit(1, Waiter)

SpecCtx == Init /\ [][NextCtx]_vars

\* Shutdown called by several goroutines on a factory with one context, the
\* providers' unmount hooks returning nil, returning an error or panicking.
NextShutdown ==
    \/ NewCtxCheck(1)
    \/ WrapBuild(1, 0)
    \/ CompleteWithError(1, 1, ErrComplete)
    \/ CompleteAccount(1, 1)
    \/ CompleteFinish(1, 1)
    \/ \E s \in Shutdowners : ShutdownTurn(s) /\ ShutdownCAS(s)
    \/ \E s \in Shutdowners : ShutdownClose(s)
    \/ \E s \in Shutdowners : DrainWait(s)
    \/ \E s \in Shutdowners : ShutdownTimerFire(s)
    \/ \E s \in Shutdowners, drained \in BOOLEAN : ShutdownSelect(s, drained)
    \/ \E s \in Shutdowners, outcome \in HookOutcomes : ShutdownUnmount(s, outcome)

SpecShutdown == InitNoTTL /\ [][NextShutdown]_vars

\* a factory configured with a positive MaxTTL
InitTTL == Init /\ factory.requestTTL > 0

\* One bounded context: its deadline goroutines, Extend, Defer, and a caller that may
\* complete it.
NextDeadline ==
    \/ NewCtxCheck(1)
    \/ WrapBuild(1, 0)
    \/ Extend(1)
    \/ Defer(1)
    \/ \E w \in Waiters : refreshDeadline(1, w)
    \/ TimerFire(1)
    \/ \E w \in Waiters : WaiterTimeout(1, w)
    \/ \E w \in Waiters : WaiterExit(1, w)
    \/ \E err \in CallerErrs : CompleteWithError(1, 1, err)
    \/ \E c \in Completers : CompleteAccount(1, c)
    \/ \E c \in Completers : CompleteCallback(1, c)
    \/ \E c \in Completers : CompleteFinish(1, c)

\* Every goroutine that can take a step takes it in the end, and time passes; the
\* calls made from outside (creation, Extend, Defer, Complete) may never come.
FairDeadline ==
    /\ \A w \in Waiters : WF_vars(refreshDeadline(1, w))
    /\ WF_vars(TimerFire(1))
    /\ \A w \in Waiters : WF_vars(WaiterTimeout(1, w))
    /\ \A c \in Completers : WF_vars(CompleteAccount(1, c))
    /\ \A c \in Completers : WF_vars(CompleteCallback(1, c))
    /\ \A c \in Completers : WF_vars(CompleteFinish(1, c))

SpecDeadline == InitTTL /\ [][NextDeadline]_vars /\ FairDeadline

\* One context, bounded or not at its creation, with Extend: the goroutines of
\* SpecDeadline, and a monitor that finds the completion signal closed returns.
FairExtend ==
    /\ FairDeadline
    /\ \A w \in Waiters : WF_vars(WaiterExit(1, w))

SpecExtend == Init /\ [][NextDeadline]_vars /\ FairExtend

\* Spawn with providers whose hooks may panic: a parent made by NewCtx, children
\* bounded or not, completions by a caller and by the deadline goroutines.
NextSpawn ==
    \/ \E i \in CtxIds : NewCtxCheck(i)
    \/ \E i \in CtxIds, newPanic \in 0..NumProviders : WrapBuild(i, newPanic)
    \/ \E i, p \in CtxIds : SpawnCheck(i, p)
    \/ \E i \in CtxIds, ttl \in TTLs, newPanic, spawnPanic \in 0..NumProviders :
          SpawnBuild(i, ttl, newPanic, spawnPanic)
    \/ \E i \in CtxIds : SpawnRecover(i)
    \/ \E i \in CtxIds : SpawnReturn(i)
    \/ \E i \in CtxIds : CompleteWithError(i, 1, ErrComplete)
    \/ \E i \in CtxIds, c \in Completers : CompleteAccount(i, c)
    \/ \E i \in CtxIds, c \in Completers : CompleteFinish(i, c)
    \/ \E i \in CtxIds : refreshDeadline(i, Waiter)
    \/ \E i \in CtxIds : TimerFire(i)
    \/ \E i \in CtxIds : WaiterTimeout(i, Waiter)
    \/ \E i \in CtxIds : WaiterExit(i, Waiter)

SpecSpawn == InitNoTTL /\ [][NextSpawn]_vars

\* the ttl Spawn computes from completeBy: time.Until of a time in the past is
\* negative, the zero time gives 0, a time to come a positive duration
SpawnTTLs == {-1, 0, 1}

\* Contexts that nobody completes: parents made by NewCtx on a factory with or without
\* a MaxTTL, children spawned with a completeBy that is zero, past or to come, callbacks,
\* and the deadline goroutines, which alone complete a context.
NextUntil ==
    \/ \E i \in CtxIds : NewCtxCheck(i)
    \/ \E i \in CtxIds : WrapBuild(i, 0)
    \/ \E i, p \in CtxIds : SpawnCheck(i, p)
    \/ \E i \in CtxIds, ttl \in SpawnTTLs : SpawnBuild(i, ttl, 0, 0)
    \/ \E i \in CtxIds : Defer(i)
    \/ \E i \in CtxIds : refreshDeadline(i, Waiter)
    \/ \E i \in CtxIds : TimerFire(i)
    \/ \E i \in CtxIds : WaiterTimeout(i, Waiter)
    \/ \E i \in CtxIds : CompleteAccount(i, Waiter)
    \/ \E i \in CtxIds : CompleteCallback(i, Waiter)
    \/ \E i \in CtxIds : CompleteFinish(i, Waiter)

\* Every goroutine that can take a step takes it in the end, and time passes.
FairUntil ==
    /\ \A i \in CtxIds : WF_vars(refreshDeadline(i, Waiter))
    /\ \A i \in CtxIds : WF_vars(TimerFire(i))
    /\ \A i \in CtxIds : WF_vars(WaiterTimeout(i, Waiter))
    /\ \A i \in CtxIds : WF_vars(CompleteAccount(i, Waiter))
    /\ \A i \in CtxIds : WF_vars(CompleteCallback(i, Waiter))
    /\ \A i \in CtxIds : WF_vars(CompleteFinish(i, Waiter))

SpecUntil == Init /\ [][NextUntil]_vars /\ FairUntil

\* One context with c.mu held across steps: the calls that Store, Defer and complete
\* wait for the lock, the callbacks call the methods of their own context, and the
\* completion closes the signal and deletes the values key by key under the lock.
NextMutex ==
    \/ NewCtxCheck(1)
    \/ WrapBuild(1, 0)
    \/ ~muHeld(1) /\ Defer(1)
    \/ \E value \in Vals : ~muHeld(1) /\ Store(1, "k", value)
    \/ ~muHeld(1) /\ CompleteWithError(1, 1, ErrComplete)
    \/ CompleteAccount(1, 1)
    \/ CompleteCallback(1, 1)
    \/ \E m \in Methods : CallbackCalls(1, 1, m)
    \/ CallbackLocked(1, 1)
    \/ CallbackUnlock(1, 1)
    \/ CallbackReturn(1, 1)
    \/ CompleteLockClose(1, 1)
    \/ \E key \in AllKeys : CompleteWipeKey(1, 1, key)
    \/ CompleteUnlock(1, 1)

\* Every goroutine that can take a step takes it in the end.
FairMutex ==
    /\ WF_vars(CompleteAccount(1, 1))
    /\ WF_vars(CompleteCallback(1, 1))
    /\ WF_vars(CallbackLocked(1, 1))
    /\ WF_vars(CallbackUnlock(1, 1))
    /\ WF_vars(CallbackReturn(1, 1))
    /\ WF_vars(CompleteLockClose(1, 1))
    /\ WF_vars(\E key \in AllKeys : CompleteWipeKey(1, 1, key))
    /\ WF_vars(CompleteUnlock(1, 1))

SpecMutex == InitNoTTL /\ [][NextMutex]_vars /\ FairMutex

\* Contexts of NewCtx whose base context is replaced by Attach, values stored in
\* them, and calls of Value.
NextAttach ==
    \/ \E i \in CtxIds : NewCtxCheck(i)
    \/ \E i \in CtxIds : WrapBuild(i, 0)
    \/ \E i \in CtxIds : Store(i, "k", "v2")
    \/ \E i \in CtxIds, ctx \in Attachable : Attach(i, ctx)
    \/ \E i \in CtxIds, key \in AllKeys : ValueCall(i, key)
    \/ \E i \in CtxIds : ValueStep(i)
    \/ \E i \in CtxIds : ValueReturn(i)

\* A goroutine inside Value goes on executing.
FairAttach == \A i \in CtxIds : WF_vars(ValueStep(i))

SpecAttach == InitNoTTL /\ [][NextAttach]_vars /\ FairAttach

\* A parent and the contexts spawned from it, on a factory with or without a MaxTTL:
\* children bounded or not, completions by a caller and by the deadline goroutines
\* of either.
NextFamily ==
    \/ NewCtxCheck(1)
    \/ WrapBuild(1, 0)
    \/ \E i \in CtxIds : SpawnCheck(i, 1)
    \/ \E i \in CtxIds, ttl \in TTLs : SpawnBuild(i, ttl, 0, 0)
    \/ \E i \in CtxIds : CompleteWithError(i, 1, ErrComplete)
    \/ \E i \in CtxIds, c \in Completers : CompleteAccount(i, c)
    \/ \E i \in CtxIds, c \in Completers : CompleteFinish(i, c)
    \/ \E i \in CtxIds : refreshDeadline(i, Waiter)
    \/ \E i \in CtxIds : TimerFire(i)
    \/ \E i \in CtxIds : WaiterTimeout(i, Waiter)
    \/ \E i \in CtxIds : WaiterExit(i, Waiter)

SpecFamily == Init /\ [][NextFamily]_vars

\* The defaults of a factory without MaxTTL and their lock: creations whose hooks may
\* use the accessor, StoreDefault calls from outside, completions, and a Shutdown
\* whose unmount hooks may store a default.
NextDefaults ==
    \/ \E i \in CtxIds : NewCtxCheck(i)
    \/ \E i \in CtxIds : SpawnCheck(i, 1)
    \/ \E i \in CtxIds : newCtxCount(i)
    \/ \E i \in CtxIds : newCtxDefaults(i)
    \/ \E i \in CtxIds : HookGetDefault(i)
    \/ \E i \in CtxIds, value \in Vals : HookStoreDefault(i, "k", value)
    \/ \E i \in CtxIds : newCtxReturn(i, 0)
    \/ \E value \in Vals : StoreDefault("k", value)
    \/ \E w \in factory.defaultsLock.pending : StoreDefaultAcquire(w)
    \/ \E i \in CtxIds : CompleteWithError(i, 1, ErrComplete)
    \/ \E i \in CtxIds : CompleteAccount(i, 1)
    \/ \E i \in CtxIds : CompleteFinish(i, 1)
    \/ ShutdownCAS(1)
    \/ ShutdownClose(1)
    \/ DrainWait(1)
    \/ ShutdownTimerFire(1)
    \/ \E drained \in BOOLEAN : ShutdownSelect(1, drained)
    \/ UnmountRLock(1)
    \/ \E value \in Vals : UnmountStoreDefault(1, "k", value)
    \/ UnmountHook(1, "ok")

\* Every goroutine that can take a step takes it in the end, and the shutdown deadline
\* passes; the calls made from outside and what a hook does are not forced.
FairDefaults ==
    /\ \A i \in CtxIds : WF_vars(newCtxCount(i))
    /\ \A i \in CtxIds : WF_vars(newCtxDefaults(i))
    /\ \A i \in CtxIds : WF_vars(newCtxReturn(i, 0))
    /\ WF_vars(\E w \in factory.defaultsLock.pending : StoreDefaultAcquire(w))
    /\ \A i \in CtxIds : WF_vars(CompleteAccount(i, 1))
    /\ \A i \in CtxIds : WF_vars(CompleteFinish(i, 1))
    /\ WF_vars(ShutdownClose(1))
    /\ WF_vars(DrainWait(1))
    /\ WF_vars(ShutdownTimerFire(1))
    /\ WF_vars(\E drained \in BOOLEAN : ShutdownSelect(1, drained))
    /\ WF_vars(UnmountRLock(1))
    /\ WF_vars(UnmountHook(1, "ok"))

SpecDefaults == InitNoTTL /\ [][NextDefaults]_vars /\ FairDefaults

\* The defaults and the contexts that copy them: creations by NewCtx and Wrap whose
\* hooks leave the accessor alone, StoreDefault calls from outside, completions.
NextStore ==
    \/ \E i \in CtxIds : NewCtxCheck(i)
    \/ \E i \in CtxIds, ext \in ExtCtxs : WrapCheck(i, ext)
    \/ \E i \in CtxIds : newCtxCount(i)
    \/ \E i \in CtxIds : newCtxDefaults(i)
    \/ \E i \in CtxIds : newCtxReturn(i, 0)
    \/ \E value \in Vals : StoreDefault("k", value)
    \/ \E w \in factory.defaultsLock.pending : StoreDefaultAcquire(w)
    \/ \E i \in CtxIds : CompleteWithError(i, 1, ErrComplete)
    \/ \E i \in CtxIds : CompleteAccount(i, 1)
    \/ \E i \in CtxIds : CompleteFinish(i, 1)

SpecStore == InitNoTTL /\ [][NextStore]_vars

\* Contexts that wrap an external context which its owner may cancel, on a factory
\* with or without a MaxTTL.
NextWrap ==
    \/ \E i \in CtxIds, ext \in ExtCtxs : WrapCheck(i, ext)
    \/ \E i \in CtxIds : WrapBuild(i, 0)
    \/ \E i \in CtxIds : CancelExt(i)
    \/ \E i \in CtxIds, err \in CallerErrs : CompleteWithError(i, 1, err)
    \/ \E i \in CtxIds, c \in Completers : CompleteAccount(i, c)
    \/ \E i \in CtxIds, c \in Completers : CompleteFinish(i, c)
    \/ \E i \in CtxIds : refreshDeadline(i, Waiter)
    \/ \E i \in CtxIds : TimerFire(i)
    \/ \E i \in CtxIds : WaiterTimeout(i, Waiter)
    \/ \E i \in CtxIds : WaiterExit(i, Waiter)

\* Every goroutine that can take a step takes it in the end, and time passes; the
\* calls made from outside (Wrap, the cancellation, Complete) may never come.
FairWrap ==
    /\ \A i \in CtxIds : WF_vars(WrapBuild(i, 0))
    /\ \A i \in CtxIds, c \in Completers : WF_vars(CompleteAccount(i, c))
    /\ \A i \in CtxIds, c \in Completers : WF_vars(CompleteFinish(i, c))
    /\ \A i \in CtxIds : WF_vars(refreshDeadline(i, Waiter))
    /\ \A i \in CtxIds : WF_vars(TimerFire(i))
    /\ \A i \in CtxIds : WF_vars(WaiterTimeout(i, Waiter))
    /\ \A i \in CtxIds : WF_vars(WaiterExit(i, Waiter))

SpecWrap == Init /\ [][NextWrap]_vars /\ FairWrap

\* Shutdown of a factory whose one context carries deferred callbacks: the drain wait
\* against a completion that is under way.
NextDrain ==
    \/ NewCtxCheck(1)
    \/ WrapBuild(1, 0)
    \/ Defer(1)
    \/ CompleteWithError(1, 1, ErrComplete)
    \/ CompleteAccount(1, 1)
    \/ CompleteCallback(1, 1)
    \/ CompleteFinish(1, 1)
    \/ ShutdownCAS(1)
    \/ ShutdownClose(1)
    \/ DrainWait(1)
    \/ ShutdownTimerFire(1)
    \/ \E drained \in BOOLEAN : ShutdownSelect(1, drained)
    \/ ShutdownUnmount(1, "ok")

SpecDrain == InitNoTTL /\ [][NextDrain]_vars

\* a connection carries two requests, served one after the other
Requests == {i \in CtxIds : i <= 2}

ServeTurn(i) ==
    \A j \in Requests : j < i => calls[j].http.phase \in {"returned", "panicked"}

\* The requests of a connection served by an HTTPMiddleware with NumHandlers
\* handlers, on a factory with or without a MaxTTL, and a Shutdown call up to its
\* select (what follows the select reads and writes nothing of a request).
NextHTTP ==
    \/ \E i \in Requests : ServeTurn(i) /\ WrapCheck(i, Background)
    \/ \E i \in Requests : WrapBuild(i, 0)
    \/ \E i \in Requests : ServeUnavailable(i)
    \/ \E i \in Requests : ServeHeader(i)
    \/ \E i \in Requests : ServeRequestID(i)
    \/ \E i \in Requests : ServeEncoder(i)
    \/ \E i \in Requests : HandlerComplete(i)
    \/ \E i \in Requests, status \in StatusCodes : HandlerReturn(i, status)
    \/ \E i \in Requests : ServeComplete(i)
    \/ \E i \in Requests : ServeReturn(i)
    \/ \E i \in Requests, c \in Completers : CompleteAccount(i, c)
    \/ \E i \in Requests, c \in Completers : CompleteFinish(i, c)
    \/ \E i \in Requests : refreshDeadline(i, Waiter)
    \/ \E i \in Requests : TimerFire(i)
    \/ \E i \in Requests : WaiterTimeout(i, Waiter)
    \/ \E i \in Requests : WaiterExit(i, Waiter)
    \/ ShutdownCAS(1)
    \/ ShutdownClose(1)

SpecHTTP == Init /\ [][NextHTTP]_vars

\* ------------------------------------------------------------- claims
\* how often x occurs in seq
Occurrences(seq, x) == Cardinality({n \in 1..Len(seq) : seq[n] = x})

\* the goroutines that have set isComplete of context i and perform its completion
Performers(i) == {c \in Completers : comp[i][c].pc \in {"account", "loop", "done"}}

\* the goroutines that have executed the decrement for context i
Decrementers(i) == {c \in Completers : comp[i][c].pc \in {"loop", "done"}}

\* the contexts the factory has created, and those whose completion has decremented
Created == {i \in CtxIds : ctxs[i].alloc}

Completed == {i \in CtxIds : Accounted(i)}

\* C1: whatever completion triggers race on a context (Complete / CompleteWithError
\* callers, the deadline waiter), one of them at most performs the completion; no
\* callback runs twice; once the completion is over, every callback registered before
\* it began has run exactly once and the counter was decremented exactly once.
C1_ExactlyOnce ==
    \A i \in CtxIds :
        /\ Cardinality(Performers(i)) <= 1
        /\ Cardinality(Decrementers(i)) <= 1
        /\ \A fn \in CallbackIds : Occurrences(ran[i], fn) <= 1
        /\ Done(i) =>
              /\ \A fn \in hist.early[i] : Occurrences(ran[i], fn) = 1
              /\ Cardinality(Decrementers(i)) = 1
              /\ OpenContexts = Cardinality(Created) - Cardinality(Completed)

\* two callers and the deadline waiter have all tried to complete context 1, which had
\* two callbacks registered, and the completion is over
C1_Witness ==
    /\ Done(1)
    /\ \A c \in Callers \cup {Waiter} : comp[1][c].pc \in {"noop", "done"}
    /\ Cardinality(hist.early[1]) >= 2

\* C2: OpenContexts() is the number of contexts created minus the number of contexts
\* whose completion has decremented the counter, and is never negative.
C2_OpenCount ==
    /\ OpenContexts = Cardinality(Created) - Cardinality(Completed)
    /\ OpenContexts >= 0

\* two contexts were created, one of them by Spawn; one has completed, during a
\* Shutdown
C2_Witness ==
    /\ Cardinality(Created) = 2
    /\ Cardinality(Completed) = 1
    /\ \E i \in Created : calls[i].kind = "Spawn"
    /\ factory.closed
    /\ OpenContexts = 1

\* the Shutdown call s has fixed its result
Decided(s) == shut[s].admitted /\ shut[s].pc \in {"unmount", "returned"}

\* C3 as stated: the first Shutdown(d) returns true if and only if every context that
\* was open when it was called completed before d elapsed.
C3_Original ==
    \A s \in Shutdowners :
        Decided(s) =>
            (shut[s].result <=>
                IF shut[s].timer = "fired" THEN hist.pendingAtFire = {}
                ELSE hist.openAtCall \cap OpenSet = {})

\* C4 as stated: once the closed flag is set, no NewCtx or Wrap call that has not yet
\* allocated its context allocates it and increments the counter.
C4_Original ==
    [][factory.closed =>
          ~\E i \in CtxIds : /\ calls[i].kind = "Wrap"
                             /\ calls[i].pc = "checked"
                             /\ calls'[i].pc = "open"
                             /\ factory'.openContexts = factory.openContexts + 1]_vars

\* the providers in the order in which Shutdown call s has unmounted them
UnmountedBy(s) ==
    LET By(e) == e.by = s
        u == SelectSeq(unmounted, By)
    IN  [n \in 1..Len(u) |-> u[n].provider]

\* the providers, last registered first
ReverseOrder == [n \in 1..NumProviders |-> NumProviders + 1 - n]

C6_ReverseUnmount ==
    \A s \in Shutdowners :
        /\ UnmountedBy(s) = SubSeq(ReverseOrder, 1, Len(UnmountedBy(s)))
        /\ ~Decided(s) => UnmountedBy(s) = <<>>
        /\ (shut[s].admitted /\ shut[s].pc = "returned") => UnmountedBy(s) = ReverseOrder

\* the deadline elapsed with a context still open, and every provider was unmounted
C6_Witness ==
    \E s \in Shutdowners :
        /\ shut[s].pc = "returned"
        /\ shut[s].admitted
        /\ ~shut[s].result
        /\ OpenContexts > 0
        /\ UnmountedBy(s) = ReverseOrder

\* C7: an iteration of the unmount loop goes on to the next provider (or returns after
\* the last) and leaves the result alone, whatever the hook did; the Shutdown that
\* has returned has unmounted every provider.
C7_UnmountIsolated ==
    /\ [](\A s \in Shutdowners :
            (shut[s].admitted /\ shut[s].pc = "returned") =>
                Len(UnmountedBy(s)) = NumProviders)
    /\ [][\A s \in Shutdowners :
            (shut[s].pc = "unmount" /\ shut'[s] # shut[s]) =>
                /\ shut'[s].result = shut[s].result
                /\ shut'[s].k = shut[s].k - 1
                /\ shut'[s].pc = IF shut[s].k = 0 THEN "returned" ELSE "unmount"]_vars

\* the first hook invoked panicked, a later one returned an error, and Shutdown has
\* returned true after unmounting every provider
C7_Witness ==
    \E s \in Shutdowners :
        /\ shut[s].pc = "returned"
        /\ shut[s].result
        /\ Len(unmounted) = NumProviders
        /\ unmounted[1].outcome = "panic"
        /\ unmounted[NumProviders].outcome = "err"

\* C8: the factory's Done signal is closed only by an admitted Shutdown, and is closed
\* before that Shutdown waits for the drain or returns.
C8_DoneSignal ==
    /\ factory.done => \E s \in Shutdowners : shut[s].admitted
    /\ \A s \in Shutdowners :
          (shut[s].admitted /\ shut[s].pc \in {"select", "unmount", "returned"})
              => factory.done

\* the Done signal is closed while Shutdown still waits for an open context
C8_Witness ==
    \E s \in Shutdowners :
        /\ factory.done
        /\ shut[s].pc = "select"
        /\ ~shut[s].c
        /\ shut[s].timer = "armed"
        /\ OpenContexts > 0

\* the callbacks of context i that have run, as positions in the order of registration
RanPositions(i) ==
    [m \in 1..Len(ran[i]) |->
        CHOOSE j \in 1..Len(ctxs[i].onComplete) : ctxs[i].onComplete[j] = ran[i][m]]

\* C9: the callbacks of a context run last registered first: of two callbacks that
\* have run, the one registered later ran earlier; when the completion is over, the
\* callbacks that ran are the first n registered ones in the order n, ..., 2, 1, and
\* every callback registered before the completion began is among them.
C9_DeferLIFO ==
    \A i \in CtxIds :
        LET n == Len(ran[i]) IN
        /\ \A a, b \in 1..n : a < b => RanPositions(i)[a] > RanPositions(i)[b]
        /\ Done(i) =>
              /\ n <= Len(ctxs[i].onComplete)
              /\ ran[i] = [m \in 1..n |-> ctxs[i].onComplete[n + 1 - m]]
              /\ hist.early[i] \subseteq {ran[i][m] : m \in 1..n}

\* three callbacks were registered in the order 1, 2, 3 and have run in the order 3, 2, 1
C9_Witness ==
    /\ Done(1)
    /\ hist.early[1] = {1, 2, 3}
    /\ ran[1] = <<3, 2, 1>>

\* C10 as stated: once a Complete / CompleteWithError call on a context has returned,
\* whether it performed the completion or lost the race, Value(k) is absent for every
\* key stored in the context's own map.
C10_Original ==
    \A i \in CtxIds :
        (\E c \in Callers : comp[i][c].pc \in {"noop", "done"}) =>
            \A k \in hist.stored[i] \cup {RequestIDKey} : Value(i, k) = Absent

\* C10 as amended: once the completion is over (the call that performed it has
\* returned, the Done signal is closed), Value(k) is for every key what the wrapped
\* base context yields, absent if it yields nothing, also after a later Store.
C10_Amended ==
    \A i \in CtxIds :
        Done(i) => \A k \in AllKeys : Value(i, k) = ctxs[i].Context[k]

\* a value was stored under "k", the completion is over, a Store found the context
\* completed, and Value("k") is absent
C10_Witness ==
    /\ Done(1)
    /\ "k" \in hist.stored[1]
    /\ hist.dropped[1]
    /\ Value(1, "k") = Absent
    /\ Value(1, RequestIDKey) = Absent

\* C11: on a context whose completed flag is not set, Value(k) is the value of the
\* latest Store under k, whatever the attached base context holds under k, and what
\* the base context holds where nothing was stored.
C11_StoreValue ==
    \A i \in CtxIds :
        (ctxs[i].alloc /\ ~ctxs[i].isComplete) =>
            \A k \in Keys :
                Value(i, k) = IF k \in hist.stored[i] THEN hist.last[i][k]
                              ELSE ctxs[i].Context[k]

\* the base context holds a value under "k", "k" was stored, the latest Store wrote
\* "v2", and Value("k") is "v2"
C11_Witness ==
    /\ ctxs[1].alloc
    /\ ~ctxs[1].isComplete
    /\ ctxs[1].Context["k"] = "ext"
    /\ hist.last[1]["k"] = "v2"
    /\ Value(1, "k") = "v2"

\* C12 as stated: a callback handed to Defer after the completed flag of the context
\* was set is never executed.
C12_Original ==
    \A i \in CtxIds :
        \A n \in 1..Len(ran[i]) : ran[i][n] \in hist.early[i]

\* C13: a bounded context is completed in the end; when no caller performed the
\* completion, a deadline goroutine did: the Done signal is closed, the error carries
\* the Timeout sentinel and the counter was decremented once; and a deadline
\* goroutine begins a completion only after its timer has fired.
C13_DeadlineCompletes ==
    /\ [](\A i \in CtxIds :
            (Done(i) /\ Performers(i) \cap Callers = {}) =>
                /\ Performers(i) \cap Waiters # {}
                /\ ErrorText(ctxs[i].err) = ErrTimeout
                /\ Cardinality(Decrementers(i)) = 1
                /\ OpenContexts = Cardinality(Created) - Cardinality(Completed))
    /\ [][\A i \in CtxIds : \A w \in Waiters :
            (comp[i][w].pc = "select" /\ comp'[i][w].pc = "account") =>
                ctxs[i].activeTimer = "fired"]_vars
    /\ \A i \in CtxIds : (calls[i].pc = "open" /\ ctxs[i].deadline > 0) ~> Done(i)

\* a bounded context that no caller has tried to complete was completed at its
\* deadline
C13_Witness ==
    /\ Done(1)
    /\ \A c \in Callers : comp[1][c].pc = "idle"
    /\ ctxs[1].completeBy = 0
    /\ ErrorText(ctxs[1].err) = ErrTimeout
    /\ OpenContexts = 0

WinnersError(i, c) ==
    IF c \in Waiters THEN Trace(ErrTimeout)
    ELSE IF comp[i][c].err = ErrNil THEN ErrComplete
    ELSE comp[i][c].err

\* C15: the last error of a context is nil until a completion has stored it; it is
\* then the error of the goroutine that performs the completion (the traced Timeout
\* sentinel for a deadline goroutine, ErrComplete for Complete() and
\* CompleteWithError(nil), the error handed in otherwise), and no step changes it.
C15_LastErrorOnce ==
    /\ [](\A i \in CtxIds :
            /\ Decrementers(i) = {} => GetLastError(i) = ErrNil
            /\ \A c \in Decrementers(i) : GetLastError(i) = WinnersError(i, c))
    /\ [][\A i \in CtxIds :
            ctxs[i].err # ErrNil => GetLastError(i)' = GetLastError(i)]_vars

\* a caller completed context 1 with its own error; another caller and the deadline
\* goroutine came too late
C15_Witness ==
    /\ Done(1)
    /\ GetLastError(1) = ErrCustom
    /\ comp[1][Waiter].pc = "noop"
    /\ \E c \in Callers : comp[1][c].pc = "noop"

\* the hooks invoked on behalf of creation call i, by name
HooksNamed(i, name) ==
    LET Named(e) == e.hook = name IN SelectSeq(calls[i].hooks, Named)

\* C16: a Spawn call that finds its parent completed returns ErrShutdownInProgress
\* and no child: it allocates no context, raises no counter and invokes no hook.
C16_SpawnOnCompleted ==
    /\ [](\A i \in CtxIds :
            (calls[i].kind = "Spawn" /\ calls[i].pc = "refused") =>
                /\ calls[i].err = ErrShutdownInProgress
                /\ ~ctxs[i].alloc
                /\ calls[i].hooks = <<>>
                /\ i \notin Created)
    /\ [][\A i \in CtxIds :
            (calls[i].pc = "free" /\ calls'[i].kind = "Spawn") =>
                /\ factory' = factory
                /\ ctxs' = ctxs
                /\ ctxs[calls'[i].parent].isComplete => calls'[i].pc = "refused"]_vars
    /\ [][\A i \in CtxIds : calls[i].pc = "refused" => calls'[i] = calls[i]]_vars

\* a Spawn on a completed parent was refused, and the counter is at zero
C16_Witness ==
    \E i \in CtxIds :
        /\ calls[i].kind = "Spawn"
        /\ calls[i].pc = "refused"
        /\ Done(calls[i].parent)
        /\ OpenContexts = 0

\* C17 as stated: a Spawn call made on an open parent once the closed flag is set
\* fails with ErrShutdownInProgress.
C17_Original ==
    [][\A i \in CtxIds :
          (/\ factory.closed
           /\ calls[i].pc = "free"
           /\ calls'[i].kind = "Spawn") =>
              /\ calls'[i].pc = "refused"
              /\ calls'[i].err = ErrShutdownInProgress]_vars

\* the providers in registration order
RegistrationOrder == [n \in 1..NumProviders |-> n]

\* the providers on which the hook `name` was invoked for creation call i, in order
ProvidersHooked(i, name) ==
    [n \in 1..Len(HooksNamed(i, name)) |-> HooksNamed(i, name)[n].provider]

\* C18 as stated: for a child that Spawn has returned, every provider's
\* OnSpawnedContext hook was invoked in registration order and no OnNewContext hook;
\* for a context of NewCtx or Wrap, OnNewContext only.
C18_Original ==
    \A i \in CtxIds :
        /\ (calls[i].kind = "Spawn" /\ calls[i].pc = "open") =>
              /\ ProvidersHooked(i, "OnSpawnedContext") = RegistrationOrder
              /\ ProvidersHooked(i, "OnNewContext") = <<>>
        /\ (calls[i].kind = "Wrap" /\ calls[i].pc = "open") =>
              /\ ProvidersHooked(i, "OnNewContext") = RegistrationOrder
              /\ ProvidersHooked(i, "OnSpawnedContext") = <<>>

\* C18 as amended: for a child that Spawn has returned, every provider's OnNewContext
\* hook was invoked in registration order and after them every provider's
\* OnSpawnedContext hook in registration order; for a context of NewCtx or Wrap,
\* every provider's OnNewContext hook in registration order and no OnSpawnedContext.
C18_Amended ==
    \A i \in CtxIds :
        /\ (calls[i].kind = "Spawn" /\ calls[i].pc = "open") =>
              calls[i].hooks = HookCalls("OnNewContext", NumProviders)
                                   \o HookCalls("OnSpawnedContext", NumProviders)
        /\ (calls[i].kind = "Wrap" /\ calls[i].pc = "open") =>
              calls[i].hooks = HookCalls("OnNewContext", NumProviders)
        /\ (calls[i].kind = "Spawn" /\ calls[i].pc = "open") =>
              /\ ProvidersHooked(i, "OnSpawnedContext") = RegistrationOrder
              /\ ProvidersHooked(i, "OnNewContext") = RegistrationOrder

\* Spawn has returned a child of a context made by NewCtx
C18_Witness ==
    \E i \in CtxIds :
        /\ calls[i].kind = "Spawn"
        /\ calls[i].pc = "open"
        /\ calls[calls[i].parent].kind = "Wrap"
        /\ Len(calls[i].hooks) = 2 * NumProviders
        /\ Len(calls[calls[i].parent].hooks) = NumProviders

\* C19 as stated: when a hook run on behalf of a Spawn call has panicked (an
\* OnNewContext or an OnSpawnedContext hook) and the call is over, the child has been
\* force-completed: its completed flag is set, and unless a deadline goroutine is
\* in the middle of that completion, the counter no longer counts the child.
C19_Original ==
    \A i \in CtxIds :
        (calls[i].kind = "Spawn" /\ calls[i].pc \in {"panicked", "nil"}) =>
            /\ ctxs[i].isComplete
            /\ Performers(i) \cap Callers # {} => Accounted(i)

\* C20 as stated: a Spawn call during which an OnSpawnedContext hook panicked does
\* not return normally; it never returns a nil child with a nil error.
C20_Original ==
    \A i \in CtxIds : calls[i].kind = "Spawn" => calls[i].pc # "nil"

\* the contexts spawned from context p
ChildrenOf(p) == {j \in Created : calls[j].kind = "Spawn" /\ calls[j].parent = p}

\* C21: a spawned child and its parent have independent lifetimes: a context is marked
\* complete, has its Done signal closed and its values cleared only by a completion
\* performed on that very context (a step that completes one context leaves the other
\* contexts' completion state and values as they were), and no deadline goroutine
\* exists for a child spawned with a zero completeBy.
C21_Independent ==
    /\ [](\A i \in Created :
            /\ ctxs[i].isComplete => Performers(i) # {}
            /\ Done(i) => \E c \in Completers : comp[i][c].pc = "done"
            /\ ctxs[i].contextValues[RequestIDKey] = Absent => Done(i)
            /\ (calls[i].kind = "Spawn" /\ ctxs[i].deadline = 0) =>
                  \A w \in Waiters : comp[i][w].pc = "idle")
    /\ [][\A i \in CtxIds :
            comp'[i] # comp[i] =>
                \A j \in Created \ {i} :
                    /\ ctxs'[j].isComplete = ctxs[j].isComplete
                    /\ ctxs'[j].complete = ctxs[j].complete
                    /\ ctxs'[j].err = ctxs[j].err
                    /\ ctxs'[j].contextValues = ctxs[j].contextValues]_vars

\* the parent was completed by its deadline and is Done while a child spawned with a
\* zero completeBy is open with its values
C21_Witness ==
    \E p \in Created : \E j \in ChildrenOf(p) :
        /\ comp[p][Waiter].pc = "done"
        /\ Done(p)
        /\ calls[j].pc = "open"
        /\ ctxs[j].deadline = 0
        /\ ~ctxs[j].isComplete
        /\ ~Done(j)
        /\ Value(j, RequestIDKey) = IdOf(j)

\* C22: StoreDefault(k, v) makes v the default under k: GetDefault(k) returns the value
\* of the latest StoreDefault(k, _) that has written, every context copies at its
\* creation the defaults in force at that moment, so that Value(k) yields them, and a
\* StoreDefault changes the value map of no context that exists already.
C22_Defaults ==
    /\ [](\A k \in Keys : GetDefault(k) = hist.defaults[k])
    /\ [][\A i \in CtxIds :
            (calls[i].pc = "rlock" /\ calls'[i].pc = "hooks") =>
                \A k \in Keys :
                    Value(i, k)' = IF hist.defaults[k] # Absent THEN hist.defaults[k]
                                   ELSE calls[i].base[k]]_vars
    /\ [][hist'.defaults # hist.defaults =>
            \A i \in Created : ctxs'[i].contextValues = ctxs[i].contextValues]_vars

\* context 1 was created before any default was stored, context 2 after
\* StoreDefault("k", "v1") returned, and StoreDefault("k", "v2") has returned since
C22_Witness ==
    /\ calls[1].pc = "open"
    /\ calls[2].pc = "open"
    /\ Value(1, "k") = Absent
    /\ Value(2, "k") = "v1"
    /\ GetDefault("k") = "v2"

\* C26 as stated: a NewCtx, Wrap or Spawn call that has passed its check returns the
\* new context in the end, whatever StoreDefault, creation and Shutdown calls run
\* beside it and whether or not an OnNewContext hook calls GetDefault or StoreDefault
\* on the accessor.
C26_Original ==
    \A i \in CtxIds : (calls[i].pc = "checked") ~> (calls[i].pc = "open")

\* C27 as stated: an OnFactoryUnmount hook that calls StoreDefault on the accessor it
\* is handed returns from it, and the Shutdown around it returns.
C27_Original ==
    \A s \in Shutdowners : (shut[s].pc = "lockwait") ~> (shut[s].pc = "returned")

\* C23: for a context made by Wrap(ext), Value(k) is what ext holds under a key k that
\* the context's own map was never given, absent when ext holds nothing either; the
\* context's request id is read from the context and not from ext, which stays the
\* context it was.
C23_WrapValue ==
    \A i \in CtxIds :
        (ctxs[i].alloc /\ calls[i].kind = "Wrap") =>
            /\ \A k \in Keys \ hist.stored[i] : Value(i, k) = calls[i].base[k]
            /\ ctxs[i].Context = calls[i].base
            /\ GetRequestID(calls[i].base[RequestIDKey]) = ""
            /\ ~ctxs[i].isComplete => GetRequestID(Value(i, RequestIDKey)) = IdOf(i)

\* an open context wraps an external context that holds "ext" under "k": Value("k") is
\* "ext", the request id is the context's and the external context has none
C23_Witness ==
    /\ calls[1].pc = "open"
    /\ calls[1].base["k"] = "ext"
    /\ hist.stored[1] = {}
    /\ ~ctxs[1].isComplete
    /\ Value(1, "k") = "ext"
    /\ GetRequestID(Value(1, RequestIDKey)) = IdOf(1)
    /\ GetRequestID(ctxs[1].Context[RequestIDKey]) = ""

\* C24 as stated: once the external context handed to Wrap is cancelled, the context
\* is completed in the end: its Done signal is closed and the counter decremented.
C24_Original ==
    \A i \in CtxIds :
        (calls[i].pc = "open" /\ BaseErr(i) = ErrCanceled) ~> (Done(i) /\ Accounted(i))

\* C25 as stated: once the completion of a context is over, GetRequestID still returns
\* the id the context was created with, and Err() still returns the error the
\* completion stored.
C25_Original ==
    \A i \in CtxIds :
        Done(i) =>
            /\ GetRequestID(Value(i, RequestIDKey)) = IdOf(i)
            /\ GetLastError(i) = ctxs[i].err
            /\ GetLastError(i) # ErrNil

\* C28 as stated: when an OnFactoryUnmount hook has been invoked, the shutdown
\* deadline has passed or every context that was open when Shutdown was called has
\* finished its completion: its callbacks have returned, its Done signal is closed and
\* its values are cleared.
C28_Original ==
    \A s \in Shutdowners :
        UnmountedBy(s) # <<>> =>
            \/ shut[s].timer = "fired"
            \/ \A i \in hist.openAtCall :
                  /\ Done(i)
                  /\ \A fn \in hist.early[i] : Occurrences(ran[i], fn) = 1
                  /\ ctxs[i].contextValues = EmptyMap

\* C29 as stated: Shutdown writes to the log only when an OnFactoryUnmount hook
\* returned an error or panicked; when every hook returned nil the log stays empty.
C29_Original ==
    factory.log # <<>> =>
        \E n \in 1..Len(unmounted) : unmounted[n].outcome \in {"err", "panic"}

Completing(i) == \E c \in Completers : comp[i][c].pc \in {"account", "loop"}

\* C31: while the completion of a context is under way (flag set, callbacks running,
\* Done not yet closed), Value yields the request id and, under every key that was
\* stored before the flag was set, the value of the latest such Store; the values are
\* cleared by the step that follows the last callback.
C31_ValuesForCallbacks ==
    /\ [](\A i \in CtxIds :
            Completing(i) =>
                /\ Value(i, RequestIDKey) = IdOf(i)
                /\ \A k \in hist.stored[i] : Value(i, k) = hist.last[i][k])
    /\ [][\A i \in CtxIds :
            (/\ ctxs[i].alloc
             /\ ctxs[i].contextValues[RequestIDKey] = IdOf(i)
             /\ ctxs'[i].contextValues[RequestIDKey] # IdOf(i)) =>
                /\ \E c \in Completers : comp[i][c].pc = "loop" /\ comp[i][c].idx = 0
                /\ \A fn \in hist.early[i] : Occurrences(ran[i], fn) = 1]_vars

\* two callbacks were registered and "v2" stored before the completion began; the
\* first of the callbacks to run has returned, the other has not run yet, a Store
\* found the context completed, and Value("k") is still "v2"
C31_Witness ==
    /\ \E c \in Completers : comp[1][c].pc = "loop" /\ comp[1][c].idx = 1
    /\ Len(ran[1]) = 1
    /\ Cardinality(hist.early[1]) = 2
    /\ hist.dropped[1]
    /\ hist.last[1]["k"] = "v2"
    /\ Value(1, "k") = "v2"

\* C32: within a completion the counter is decremented and the drain barrier released
\* before the first callback runs, and the Done signal is closed only when the
\* callback loop is over: when Done is closed, every callback registered before the
\* flag was set has run.
C32_Ordered ==
    /\ [](\A i \in CtxIds :
            /\ ran[i] # <<>> => Accounted(i)
            /\ Done(i) => \A fn \in hist.early[i] : Occurrences(ran[i], fn) = 1)
    /\ [][\A i \in CtxIds :
            /\ ran'[i] # ran[i] =>
                  /\ Accounted(i)
                  /\ factory.openContextWg = factory.openContexts
                  /\ ~Done(i)
            /\ (Done(i)' /\ ~Done(i)) =>
                  \E c \in Completers : comp[i][c].pc = "loop" /\ comp[i][c].idx = 0]_vars

\* the completion of a context with three callbacks is over: the counter is back at
\* zero, the three have run and Done is closed
C32_Witness ==
    /\ Done(1)
    /\ Len(ran[1]) = 3
    /\ Cardinality(hist.early[1]) = 3
    /\ OpenContexts = 0

\* the goroutines blocked in the select of refreshDeadline on the timer of context i
Monitors(i) == {w \in Waiters : comp[i][w].pc = "select"}

\* C33: a context has one goroutine at most blocked on its timer, however the
\* goroutine started at creation and those started by Extend interleave (the others
\* reset the timer and return), and a goroutine blocked on the timer returns once the
\* completion signal is closed.
C33_OneMonitor ==
    /\ [](\A i \in CtxIds : Cardinality(Monitors(i)) <= 1)
    /\ \A i \in CtxIds : Done(i) ~> (Monitors(i) = {})

\* on a context created with a deadline an Extend's goroutine has reset the timer and
\* returned, a caller has completed the context, and the goroutine started at
\* creation has left its select through the completion signal
C33_Witness ==
    /\ ctxs[1].deadline > 0
    /\ ctxs[1].completeBy >= 1
    /\ \E r \in Refreshers : comp[1][r].pc = "exit"
    /\ \E c \in Callers : comp[1][c].pc = "done"
    /\ comp[1][Waiter].pc = "exit"
    /\ ctxs[1].activeTimer = "armed"
    /\ Done(1)

\* Deadline(): no deadline while the deadline field is zero, else the completeBy the
\* last Extend or the creation stored (the model numbers the deadlines asked for)
Deadline(i) ==
    IF ctxs[i].deadline = 0
    THEN [ok |-> FALSE, at |-> 0]
    ELSE [ok |-> TRUE, at |-> ctxs[i].completeBy]

\* a step in which Extend is called on context i: it starts a refreshDeadline goroutine
ExtendCalled(i) ==
    \E r \in Refreshers : comp[i][r].pc = "idle" /\ comp'[i][r].pc = "start"

\* C34 as stated: Extend on a context whose Done signal is closed changes nothing
\* that can be observed: Deadline(), Err(), the Done signal, the open-context counter,
\* the cleared values and the callbacks that ran are what they were.
C34_Original ==
    [][\A i \in CtxIds :
        (Done(i) /\ ExtendCalled(i)) =>
            /\ Deadline(i)' = Deadline(i)
            /\ GetLastError(i)' = GetLastError(i)
            /\ Done(i)'
            /\ OpenContexts' = OpenContexts
            /\ ctxs'[i].contextValues = ctxs[i].contextValues
            /\ ran'[i] = ran[i]]_vars

\* C36: while the OnNewContext hooks of a NewCtx or Wrap call run, every default
\* stored by then is in the new context's value map (a default is never removed, and
\* none is stored while the hooks run); the hooks are invoked in registration order,
\* and all have returned when the creation call returns.
C36_HooksSeeDefaults ==
    /\ [](\A i \in CtxIds :
            calls[i].pc = "hooks" =>
                \A k \in Keys :
                    factory.defaultContextValues[k] # Absent =>
                        ctxs[i].contextValues[k] = factory.defaultContextValues[k])
    /\ [][\A k \in Keys :
            factory.defaultContextValues[k] # Absent =>
                /\ factory'.defaultContextValues[k] # Absent
                /\ (\E i \in CtxIds : calls[i].pc = "hooks") =>
                       factory'.defaultContextValues[k] = factory.defaultContextValues[k]]_vars
    /\ [][\A i \in CtxIds :
            (calls[i].pc # "open" /\ calls'[i].pc = "open") =>
                /\ calls[i].pc = "hooks"
                /\ calls[i].kind = "Wrap"
                /\ ProvidersHooked(i, "OnNewContext")' = RegistrationOrder
                /\ Len(calls'[i].hooks) = NumProviders]_vars

\* the hooks of context 2 run with the default "v1" in its value map, stored before
\* the call, while a StoreDefault waits for the lock and context 1, created before any
\* default was stored, has returned with its hooks invoked
C36_Witness ==
    /\ calls[1].pc = "open"
    /\ Value(1, "k") = Absent
    /\ ProvidersHooked(1, "OnNewContext") = RegistrationOrder
    /\ calls[2].pc = "hooks"
    /\ ctxs[2].contextValues["k"] = "v1"
    /\ factory.defaultContextValues["k"] = "v1"
    /\ factory.defaultsLock.pending # {}

\* C37 as stated: for as long as the Done signal of a context is not closed, Err()
\* returns nil, whether its external base context was cancelled or its completion is
\* under way.
C37_Original ==
    \A i \in CtxIds :
        (calls[i].pc = "open" /\ ~Done(i)) => GetLastError(i) = ErrNil

\* C38 as stated: a context whose Deadline() reports a deadline, and which nobody
\* completes, is completed with Timeout in the end; so is a child of Spawn whose
\* completeBy was already past.
C38_Original ==
    \A i \in CtxIds :
        (calls[i].pc = "open" /\ Deadline(i).ok) ~>
            (Done(i) /\ ErrorText(GetLastError(i)) = ErrTimeout)

\* the goroutines whose callback has called a method of its own context, the call
\* not yet returned
InCall(i) == {c \in Completers : comp[i][c].pc \in {"lock", "locked"}}

\* C35: a deferred callback that calls Value, Store, Defer, Complete or
\* CompleteWithError on its own context is not blocked for ever: the call returns,
\* Store and the completion calls having changed nothing, and the completion that
\* runs the callback goes on to close Done.
C35_CallbackCalls ==
    /\ \A i \in CtxIds : (InCall(i) # {}) ~> (InCall(i) = {})
    /\ \A i \in CtxIds : (InCall(i) # {}) ~> Done(i)
    /\ [][\A i \in CtxIds : \A c \in Completers :
            (comp[i][c].pc = "locked" /\ comp'[i][c].pc = "called"
                /\ comp[i][c].call \in {"Store", "Complete", "CompleteWithError"}) =>
                    /\ ctxs'[i] = ctxs[i]
                    /\ factory' = factory
                    /\ ran'[i] = ran[i]]_vars

\* the completion of context 1 is over, Done closed: the two callbacks registered
\* before it ran, a value was stored before, a callback's Store was dropped and a
\* callback's Defer registered a third callback, which did not run
C35_Witness ==
    /\ Done(1)
    /\ comp[1][1].pc = "done"
    /\ Len(ran[1]) = 2
    /\ Cardinality(hist.early[1]) = 2
    /\ Len(ctxs[1].onComplete) = 3
    /\ hist.dropped[1]
    /\ "k" \in hist.stored[1]

\* the value map of context i as creation and the Store calls that wrote left it
StoredMap(i) ==
    [k \in AllKeys |-> IF k = RequestIDKey THEN IdOf(i) ELSE hist.last[i][k]]

\* C39: the deletion of the values at completion excludes every Value and Store: when
\* c.mu is free, so that a Value or a Store can run, the map is whole as stored or
\* cleared, never half deleted; once Done is closed it is the cleared map that a call
\* granted the lock finds; and no step writes a value into the map of a context whose
\* completion has begun.
C39_WipeExcluded ==
    /\ [](\A i \in CtxIds :
            (ctxs[i].alloc /\ ~muHeld(i)) =>
                /\ ctxs[i].contextValues \in {StoredMap(i), EmptyMap}
                /\ Done(i) => ctxs[i].contextValues = EmptyMap)
    /\ [][\A i \in CtxIds : \A k \in AllKeys :
            (ctxs[i].alloc /\ ctxs'[i].contextValues[k] \notin {Absent, ctxs[i].contextValues[k]}) =>
                /\ ~ctxs[i].isComplete
                /\ ~muHeld(i)]_vars

\* the completion of context 1 holds c.mu with Done closed, has deleted the id and
\* not yet the value stored under "k"; a Store came too late and was dropped
C39_Witness ==
    /\ comp[1][1].pc = "wipe"
    /\ muHeld(1)
    /\ Done(1)
    /\ ctxs[1].contextValues[RequestIDKey] = Absent
    /\ ctxs[1].contextValues["k"] = "v2"
    /\ hist.dropped[1]

\* C40 as stated: a call of Value returns, whatever was attached before: an external
\* context, another Scoped Context, or a standard context derived from the Scoped
\* Context itself; the chain of base contexts never leads back to a context whose
\* Value is executing.
C40_Original ==
    \A i \in CtxIds : (ctxs[i].lookup.pc = "in") ~> (ctxs[i].lookup.pc = "returned")

====
